---- MODULE Spec2Model ----
(***************************************************************************)
(* Model of the error-localization and fix-application engine of           *)
(* github-sentry-bot.                                                      *)
(*                                                                         *)
(* Text is a sequence of characters, each a string; the triple-backquote   *)
(* fence of markdown and the two corruption literals are single elements   *)
(* of a text (Expand spells them out where single characters matter).      *)
(* The JavaScript string and array primitives the code uses (split, join,  *)
(* trim, slice, splice, includes) are operators on such sequences.         *)
(*                                                                         *)
(* SpecApply models applyFix in its three generations:                     *)
(*   "standard"  src/src/services/errorAnalysisService.js                  *)
(*   "enhanced"  src/src/services/enhancedErrorAnalysisService.js          *)
(*   "legacy"    src/unnamed/part_000                                      *)
(* SpecExtract models extractCodeBlocks on rendered model responses,       *)
(* SpecParse models parseSentryDetails on Sentry event payloads, and       *)
(* SpecPipeline models the two webhook handlers of src/index.js from the   *)
(* fetched event to the file write.  SpecContext models                    *)
(* ContextBuilder.buildContext section by section, SpecWorkdir the working *)
(* copies of two webhook events handled at the same time, SpecValidate     *)
(* models validateFix tier by tier, and SpecAnalyze models analyzeError of *)
(* the standard and the enhanced service with the history of stored fix    *)
(* patterns.  Each specification runs its own variables and leaves the     *)
(* others at rest.                                                         *)
(***************************************************************************)
EXTENDS Integers, Sequences, FiniteSets, TLC

VARIABLES
    gen,            \* applyFix: which generation of the service runs
    filePath,       \* applyFix: path of the target file
    disk,           \* applyFix: content of the target file, or Missing
    diskBefore,     \* applyFix: content of the target file before the call
    fix,            \* applyFix: the fix argument [code, confidence, errorLine]
    pc,             \* applyFix: state of the fix attempt
    lines,          \* applyFix: content.split('\n')
    startLine,      \* applyFix: location.startLine / startLine
    endLine,        \* applyFix: location.endLine / endLine
    newLines,       \* applyFix: the spliced copy of lines
    hasMeaningfulChange, \* applyFix: the change gate's verdict ("unset" before)
    result,         \* applyFix: the returned value
    writes,         \* applyFix: number of fs.writeFileSync calls that changed disk
    response,       \* extractCodeBlocks: the response, as prose and fenced blocks
    extracted,      \* extractCodeBlocks: the returned blocks
    extractPc,      \* extractCodeBlocks: "Start" or "Done"
    sentryEvent,    \* parseSentryDetails: the payload
    errorDetails,   \* parseSentryDetails: the outcome of the call
    parsePc,        \* parseSentryDetails: "Start" or "Done"
    handler,        \* webhook: which handler generation processes the event
    repoName,       \* webhook: which flow of the second handler the repository selects
    pipeEvent,      \* webhook: the fetched Sentry event
    srcFrame,       \* webhook: the resolved [file, line]
    located,        \* webhook: the location has been computed
    pipePc,         \* webhook: state of the pipeline run
    modelCalls,     \* webhook: chat-completion calls made
    fileWrites,     \* webhook: writes to files of the working copy
    maxTokens,      \* buildContext: this.maxTokens
    errorFile,      \* buildContext: the file at the errorFile path
    errorLineArg,   \* buildContext: the errorLine argument
    globMatches,    \* buildContext: the files glob.sync finds for the imports
    repoDir,        \* buildContext: the directory at repoPath
    bundle,         \* buildContext: the sections appended to context
    currentTokens,  \* buildContext: this.currentTokens
    relatedFiles,   \* buildContext: relatedFiles
    relatedIndex,   \* buildContext: position of the loop over relatedFiles
    skipped,        \* buildContext: a section was left out for the budget
    contextPc,      \* buildContext: the step the call is at
    clock,          \* working copies: Date.now()
    instanceRepo,   \* working copies: the repository of each event
    repoPath,       \* working copies: the repoPath of each event
    instancePc,     \* working copies: where each event's handler is
    tmpDirs,        \* working copies: the populated directories under tmp/
    validateContent, \* validateFix: newContent
    validatePath,   \* validateFix: filePath
    attempted,      \* validateFix: the tiers run so far
    validatePc,     \* validateFix: the tier the call is at, or its verdict
    analysisHistory, \* analyzeError: this.analysisHistory, in Map order
    now,            \* analyzeError: Date.now()
    calls,          \* analyzeError: number of calls made
    service,        \* analyzeError: which service's analyzeError is called
    aiResponse,     \* analyzeError: the model response of the last call
    aiAnalysis,     \* analyzeError: results.aiAnalysis of the last call
    suggestedFixes, \* analyzeError: results.suggestedFixes of the last call
    analyzePc       \* analyzeError: "Ready", or "Returned" after a call

applyVars == <<gen, filePath, disk, diskBefore, fix, pc, lines, startLine,
               endLine, newLines, hasMeaningfulChange, result, writes>>

extractVars == <<response, extracted, extractPc>>

parseVars == <<sentryEvent, errorDetails, parsePc>>

pipeVars == <<handler, repoName, pipeEvent, srcFrame, located, pipePc,
              modelCalls, fileWrites>>

contextVars == <<maxTokens, errorFile, errorLineArg, globMatches, repoDir, bundle,
                 currentTokens, relatedFiles, relatedIndex, skipped, contextPc>>

workdirVars == <<clock, instanceRepo, repoPath, instancePc, tmpDirs>>

validateVars == <<validateContent, validatePath, attempted, validatePc>>

analyzeVars == <<analysisHistory, now, calls, service, aiResponse, aiAnalysis,
                 suggestedFixes, analyzePc>>

vars == <<applyVars, extractVars, parseVars, pipeVars, contextVars, workdirVars,
          validateVars, analyzeVars>>

\* the variables each specification leaves at rest
notApply == <<extractVars, parseVars, pipeVars, contextVars,
    workdirVars, validateVars, analyzeVars>>

notExtract == <<applyVars, parseVars, pipeVars, contextVars,
    workdirVars, validateVars, analyzeVars>>

notParse == <<applyVars, extractVars, pipeVars, contextVars,
    workdirVars, validateVars, analyzeVars>>

notPipeline == <<applyVars, extractVars, parseVars, contextVars,
    workdirVars, validateVars, analyzeVars>>

notContext == <<applyVars, extractVars, parseVars, pipeVars,
    workdirVars, validateVars, analyzeVars>>

notWorkdir == <<applyVars, extractVars, parseVars, pipeVars,
    contextVars, validateVars, analyzeVars>>

notValidate == <<applyVars, extractVars, parseVars, pipeVars,
    contextVars, workdirVars, analyzeVars>>

notAnalyze == <<applyVars, extractVars, parseVars, pipeVars,
    contextVars, workdirVars, validateVars>>

----------------------------------------------------------------------------
(* Bounds of the model *)

MaxLines == 7

----------------------------------------------------------------------------
(* Characters *)

NL == "NL"
CR == "CR"
SP == "SP"
TAB == "TAB"
FENCE == "FENCE"
UNDEFUNDEF == "undefinedundefined"
NULLNULL == "nullnull"
DQ == "DQ"
SQ == "SQ"
BT == "BT"
BSL == "BSL"

LowerCase ==
    {"a", "b", "c", "d", "e", "f", "g", "h", "i", "j", "k", "l", "m", "n",
     "o", "p", "q", "r", "s", "t", "u", "v", "w", "x", "y", "z"}

UpperCase ==
    {"A", "B", "C", "D", "E", "F", "G", "H", "I", "J", "K", "L", "M", "N",
     "O", "P", "Q", "R", "S", "T", "U", "V", "W", "X", "Y", "Z"}

Digits == {"0", "1", "2", "3", "4", "5", "6", "7", "8", "9"}

IsWs(c) == c \in {SP, NL, CR, TAB}

IsLetter(c) == c \in LowerCase \cup UpperCase

IsWord(c) == c \in LowerCase \cup UpperCase \cup Digits \cup {"_"}

Max(a, b) == IF a >= b THEN a ELSE b

Min(a, b) == IF a <= b THEN a ELSE b

----------------------------------------------------------------------------
(* JavaScript string and array primitives *)

\* Array.prototype.slice / String.prototype.slice with 0-based start
\* (inclusive) and end (exclusive), clamped as JavaScript clamps them.
RelIndex(k, len) == IF k < 0 THEN Max(len + k, 0) ELSE Min(k, len)

Slice(arr, from, to) ==
    LET s == RelIndex(from, Len(arr))
        e == RelIndex(to, Len(arr))
    IN  IF s >= e THEN <<>> ELSE SubSeq(arr, s + 1, e)

\* Array.prototype.splice(start, deleteCount, ...items): the array afterwards.
Splice(arr, start, deleteCount, items) ==
    LET len == Len(arr)
        s == RelIndex(start, len)
        d == Min(Max(deleteCount, 0), len - s)
    IN  SubSeq(arr, 1, s) \o items \o
        (IF s + d >= len THEN <<>> ELSE SubSeq(arr, s + d + 1, len))

\* index of the first element of t at or after position from that is c, 0 if none
IndexOf(t, c, from) ==
    IF \E i \in from..Len(t) : t[i] = c
    THEN CHOOSE i \in from..Len(t) :
            t[i] = c /\ \A j \in from..(i - 1) : t[j] # c
    ELSE 0

\* String.prototype.split('\n')
RECURSIVE Split(_)
Split(t) ==
    LET i == IndexOf(t, NL, 1)
    IN  IF i = 0 THEN <<t>>
        ELSE <<SubSeq(t, 1, i - 1)>> \o Split(SubSeq(t, i + 1, Len(t)))

\* Array.prototype.join('\n')
RECURSIVE Join(_)
Join(ls) ==
    IF Len(ls) = 0 THEN <<>>
    ELSE IF Len(ls) = 1 THEN ls[1]
    ELSE ls[1] \o <<NL>> \o Join(Tail(ls))

\* String.prototype.trim()
Trim(t) ==
    IF \A i \in 1..Len(t) : IsWs(t[i]) THEN <<>>
    ELSE LET a == CHOOSE i \in 1..Len(t) :
                    ~IsWs(t[i]) /\ \A j \in 1..(i - 1) : IsWs(t[j])
             b == CHOOSE i \in 1..Len(t) :
                    ~IsWs(t[i]) /\ \A j \in (i + 1)..Len(t) : IsWs(t[j])
         IN  SubSeq(t, a, b)

\* String.prototype.includes(needle)
Includes(hay, needle) ==
    \E i \in 0..(Len(hay) - Len(needle)) :
        \A j \in 1..Len(needle) : hay[i + j] = needle[j]

\* value.replace(/\s/g, '').length > 0
HasNonWs(t) == \E i \in 1..Len(t) : ~IsWs(t[i])

----------------------------------------------------------------------------
(* PatchExtractor: extractCodeBlocks *)

\* first position at or after q whose character is not in [a-z]
RECURSIVE SkipLower(_, _)
SkipLower(t, q) ==
    IF q <= Len(t) /\ t[q] \in LowerCase THEN SkipLower(t, q + 1) ELSE q

\* The exec loop of /FENCE(?:[a-z]*\n)?([\s\S]*?)FENCE/g from position from:
\* the trimmed capture group of every match, in order.
RECURSIVE MatchBlocks(_, _)
MatchBlocks(t, from) ==
    LET p == IndexOf(t, FENCE, from)
    IN  IF p = 0 THEN <<>>
        ELSE LET q == SkipLower(t, p + 1)
                 bodyStart == IF q <= Len(t) /\ t[q] = NL THEN q + 1 ELSE p + 1
                 c == IndexOf(t, FENCE, bodyStart)
             IN  IF c = 0 THEN <<>>
                 ELSE <<Trim(SubSeq(t, bodyStart, c - 1))>> \o MatchBlocks(t, c + 1)

extractCodeBlocks(code) ==
    LET blocks == MatchBlocks(code, 1)
    IN  IF Len(blocks) = 0 THEN <<Trim(code)>> ELSE blocks

----------------------------------------------------------------------------
(* BlockLocator: findFixLocation and the fixed window of the other generations *)

NoLocation == [found |-> FALSE, startLine |-> 0, endLine |-> 0]

Location(s, e) == [found |-> TRUE, startLine |-> s, endLine |-> e]

\* the lines of a block whose trimmed content is not empty
NonEmptyLines(ls) == SelectSeq(ls, LAMBDA l : Len(Trim(l)) > 0)

\* the for loop of findFixLocation: 0-based index of the first matching line, -1 if none
FirstMatch(ls, firstSearchLine) ==
    IF \E i \in 1..Len(ls) :
          Includes(ls[i], firstSearchLine) \/ Includes(firstSearchLine, Trim(ls[i]))
    THEN (CHOOSE i \in 1..Len(ls) :
            /\ Includes(ls[i], firstSearchLine) \/ Includes(firstSearchLine, Trim(ls[i]))
            /\ \A j \in 1..(i - 1) :
                  ~(Includes(ls[j], firstSearchLine) \/ Includes(firstSearchLine, Trim(ls[j])))) - 1
    ELSE -1

findFixLocation(fx, ls) ==
    LET errorLine == fx.errorLine
    IN  IF errorLine > 0 /\ errorLine <= Len(ls)
        THEN Location(Max(1, errorLine - 2), Min(Len(ls), errorLine + 2))
        ELSE LET firstBlock == extractCodeBlocks(fx.code)[1]
             IN  IF Len(firstBlock) = 0 THEN NoLocation
                 ELSE LET searchLines == NonEmptyLines(Split(firstBlock))
                      IN  IF Len(searchLines) = 0 THEN NoLocation
                          ELSE LET i == FirstMatch(ls, Trim(searchLines[1]))
                               IN  IF i < 0 THEN NoLocation
                                   ELSE Location(Max(1, i - 2), Min(Len(ls), i + 2))

\* a splice that leaves the last located line in place
applyCodeFixKeepsLast(ls, codeBlocks, location) ==
    Splice(ls, location.startLine - 1,
           location.endLine - location.startLine, Split(codeBlocks[1]))

\* applyCodeFix: the first block spliced over the located lines
applyCodeFix(ls, codeBlocks, location) ==
    Splice(ls, location.startLine - 1,
           location.endLine - location.startLine + 1, Split(codeBlocks[1]))

\* the window of the enhanced and legacy generations: fix.errorLine || 1,
\* then a 0-based start and an exclusive end
WindowRadius == 5

WindowStart(fx) == Max(0, (IF fx.errorLine = 0 THEN 1 ELSE fx.errorLine) - WindowRadius)

WindowEnd(fx, ls) == Min(Len(ls), (IF fx.errorLine = 0 THEN 1 ELSE fx.errorLine) + WindowRadius)

----------------------------------------------------------------------------
(* ChangeGate: diff.diffLines and the hasMeaningfulChange test *)

\* the line tokens diffLines compares: every line with its line break, the
\* final empty token dropped
LineTokens(t) ==
    LET ls == Split(t)
        n == Len(ls)
    IN  [i \in 1..(n - 1) |-> ls[i] \o <<NL>>] \o
        (IF Len(ls[n]) = 0 THEN <<>> ELSE <<ls[n]>>)

\* One cell of the edit graph of a against b, given the cells after it: the
\* length d of a shortest edit script from (i, j) and, in outs, whether some
\* added or removed token of such a script holds a non-whitespace character.
\* Equal tokens are always kept (the diagonal is followed as far as it goes);
\* where removing and adding are equally short the library's choice is left open.
EditCell(a, b, i, j, table) ==
    IF i > Len(a)
    THEN [d |-> Len(b) - j + 1, outs |-> {\E k \in j..Len(b) : HasNonWs(b[k])}]
    ELSE IF j > Len(b)
    THEN [d |-> Len(a) - i + 1, outs |-> {\E k \in i..Len(a) : HasNonWs(a[k])}]
    ELSE IF a[i] = b[j] THEN table[<<i + 1, j + 1>>]
    ELSE LET rm == table[<<i + 1, j>>]
             ad == table[<<i, j + 1>>]
         IN  [d |-> 1 + Min(rm.d, ad.d),
              outs |-> (IF rm.d <= ad.d
                        THEN {x \/ HasNonWs(a[i]) : x \in rm.outs} ELSE {})
                       \cup
                       (IF ad.d <= rm.d
                        THEN {x \/ HasNonWs(b[j]) : x \in ad.outs} ELSE {})]

\* the edit graph filled from its far corner, cell number c of (m+1)*(n+1),
\* until the cell of the two first tokens is filled
RECURSIVE EditTable(_, _, _, _)
EditTable(a, b, c, table) ==
    LET m == Len(a)
        n == Len(b)
    IN  IF <<1, 1>> \in DOMAIN table THEN table
        ELSE LET i == m + 1 - (c \div (n + 1))
                 j == n + 1 - (c % (n + 1))
             IN  EditTable(a, b, c + 1,
                           (<<i, j>> :> EditCell(a, b, i, j, table)) @@ table)

\* changes.some(change => (change.added || change.removed) &&
\*                        change.value.replace(/\s/g, '').length > 0)
\* for changes = diff.diffLines(original, candidate): the possible verdicts
MeaningfulVerdicts(original, candidate) ==
    LET a == LineTokens(original)
        b == LineTokens(candidate)
    IN  IF a = b THEN {FALSE}
        ELSE EditTable(a, b, 0, <<>>)[<<1, 1>>].outs

----------------------------------------------------------------------------
(* SafetyValidator: validateFix and its three tiers *)

UndefinedUndefined ==
    <<"u", "n", "d", "e", "f", "i", "n", "e", "d",
      "u", "n", "d", "e", "f", "i", "n", "e", "d">>

NullNull == <<"n", "u", "l", "l", "n", "u", "l", "l">>

\* the characters of a text, its multi-character elements spelled out
RECURSIVE Expand(_)
Expand(t) ==
    IF Len(t) = 0 THEN <<>>
    ELSE (CASE t[1] = FENCE -> <<BT, BT, BT>>
            [] t[1] = UNDEFUNDEF -> UndefinedUndefined
            [] t[1] = NULLNULL -> NullNull
            [] OTHER -> <<t[1]>>) \o Expand(Tail(t))

\* content[i] for a 1-based i; "undefined" outside the string
At(c, i) == IF i >= 1 /\ i <= Len(c) THEN c[i] ELSE "undefined"

\* number of occurrences of a character: (content.match(/\{/g) || []).length
Count(c, ch) == Cardinality({i \in 1..Len(c) : c[i] = ch})

Abs(x) == IF x < 0 THEN -x ELSE x

OpenBrackets == {"{", "[", "("}

CloseBrackets == {"}", "]", ")"}

CloserOf(ch) == CASE ch = "{" -> "}" [] ch = "[" -> "]" [] ch = "(" -> ")"

\* position after the whitespace run that starts at q
RECURSIVE SkipWs(_, _)
SkipWs(c, q) == IF q <= Len(c) /\ IsWs(c[q]) THEN SkipWs(c, q + 1) ELSE q

\* isLikelyValidClosingBracket: some ')' of the context is followed, after
\* optional whitespace, by one of the listed continuations or by the end
isLikelyValidClosingBracket(context) ==
    \E p \in 1..Len(context) :
        /\ context[p] = ")"
        /\ LET w == SkipWs(context, p + 1)
               x == At(context, w)
               y == At(context, w + 1)
           IN  \/ w > Len(context)
               \/ x = ";" /\ SkipWs(context, w + 1) > Len(context)
               \/ x \in {".", ","} /\ IsWord(At(context, SkipWs(context, w + 1)))
               \/ x = "=" /\ y \in {">", "="}
               \/ x = "!" /\ y = "="
               \/ x = "&" /\ y = "&"
               \/ x = "|" /\ y = "|"
               \/ x \in {"{", "?", "+", "-", "*", "/", "%", "<", ">", "[", "]",
                         BT, DQ, SQ}
               \/ \E q \in (p + 1)..(w - 1) : context[q] = NL

\* isLikelyValidBracketMismatch: an opening bracket followed, after optional
\* whitespace, by an opening bracket of another kind
isLikelyValidBracketMismatch(context) ==
    \E p \in 1..Len(context) :
        /\ context[p] \in OpenBrackets
        /\ LET x == At(context, SkipWs(context, p + 1))
           IN  x \in OpenBrackets /\ x # context[p]

\* where the scan resumes after '//' seen at i (k = i + 2): at the line break
LineCommentEnd(c, k) ==
    LET e == IndexOf(c, NL, k) IN IF e = 0 THEN Len(c) + 1 ELSE e

\* where the scan resumes after '/*' seen at i (k = i + 2): behind the closing
\* '*/', or at the last character when the comment is never closed
BlockCommentEnd(c, k) ==
    IF \E e \in k..(Len(c) - 1) : c[e] = "*" /\ c[e + 1] = "/"
    THEN (CHOOSE e \in k..(Len(c) - 1) :
            /\ c[e] = "*" /\ c[e + 1] = "/"
            /\ \A f \in k..(e - 1) : ~(c[f] = "*" /\ c[f + 1] = "/")) + 2
    ELSE Max(k, Len(c))

ScanStart ==
    [stack |-> <<>>, inString |-> FALSE, stringChar |-> "", inTemplate |-> FALSE,
     inJSX |-> FALSE, issues |-> 0]

\* the closing bracket at 1-based position i
CloseBracket(c, i, st) ==
    IF Len(st.stack) = 0
    THEN IF isLikelyValidClosingBracket(Slice(c, Max(0, i - 1 - 10), i - 1 + 10))
         THEN st
         ELSE [st EXCEPT !.issues = @ + 1]
    ELSE LET last == st.stack[Len(st.stack)]
             popped == [st EXCEPT !.stack = SubSeq(@, 1, Len(@) - 1)]
         IN  IF CloserOf(last.char) = c[i] THEN popped
             ELSE IF isLikelyValidBracketMismatch(
                        Slice(c, Max(0, last.position - 10), i - 1 + 10))
             THEN popped
             ELSE [popped EXCEPT !.issues = @ + 1]

\* one pass of the while loop of validateBracketsIntelligently at 1-based
\* position i: the position the next pass reads and the scanner state
ScanStep(c, i, st) ==
    LET char == c[i]
        nextChar == At(c, i + 1)
        prevChar == At(c, i - 1)
    IN  IF char = "/" /\ nextChar = "/"
        THEN [i |-> LineCommentEnd(c, i + 2), st |-> st]
        ELSE IF char = "/" /\ nextChar = "*"
        THEN [i |-> BlockCommentEnd(c, i + 2), st |-> st]
        ELSE IF ~st.inString /\ char \in {DQ, SQ}
        THEN [i |-> i + 1, st |-> [st EXCEPT !.inString = TRUE, !.stringChar = char]]
        ELSE IF st.inString /\ char = st.stringChar /\ prevChar # BSL
        THEN [i |-> i + 1, st |-> [st EXCEPT !.inString = FALSE, !.stringChar = ""]]
        ELSE IF st.inString THEN [i |-> i + 1, st |-> st]
        ELSE IF ~st.inTemplate /\ char = BT
        THEN [i |-> i + 1, st |-> [st EXCEPT !.inTemplate = TRUE]]
        ELSE IF st.inTemplate /\ char = BT
        THEN [i |-> i + 1, st |-> [st EXCEPT !.inTemplate = FALSE]]
        ELSE IF st.inTemplate THEN [i |-> i + 1, st |-> st]
        ELSE IF char = "<" /\ ~st.inJSX /\ IsLetter(nextChar)
        THEN [i |-> i + 1, st |-> [st EXCEPT !.inJSX = TRUE]]
        ELSE IF st.inJSX /\ char = ">"
        THEN [i |-> i + 1, st |-> [st EXCEPT !.inJSX = FALSE]]
        ELSE IF st.inJSX THEN [i |-> i + 1, st |-> st]
        ELSE IF char \in OpenBrackets
        THEN [i |-> i + 1,
              st |-> [st EXCEPT !.stack = Append(@, [char |-> char, position |-> i - 1])]]
        ELSE IF char \in CloseBrackets
        THEN [i |-> i + 1, st |-> CloseBracket(c, i, st)]
        ELSE [i |-> i + 1, st |-> st]

\* the while loop of validateBracketsIntelligently from 1-based position i
RECURSIVE ScanBrackets(_, _, _)
ScanBrackets(c, i, st) ==
    IF i > Len(c) THEN st
    ELSE LET n == ScanStep(c, i, st) IN ScanBrackets(c, n.i, n.st)

\* validateBracketsIntelligently: the number of issues it reports
validateBracketsIntelligently(content) ==
    LET st == ScanBrackets(content, 1, ScanStart)
    IN  st.issues + (IF Len(st.stack) > 0 THEN 1 ELSE 0)

\* the two corruption literals, checked by every tier
CorruptionIssues(content) ==
    (IF Includes(content, UndefinedUndefined) THEN 1 ELSE 0)
    + (IF Includes(content, NullNull) THEN 1 ELSE 0)

\* checkForCommonIssues (strict tier): the number of issues
checkForCommonIssues(content) ==
    validateBracketsIntelligently(content) + CorruptionIssues(content)

\* the issues of an open/close imbalance above a threshold, one per bracket kind
ImbalanceIssues(content, threshold) ==
    (IF Abs(Count(content, "{") - Count(content, "}")) > threshold THEN 1 ELSE 0)
    + (IF Abs(Count(content, "(") - Count(content, ")")) > threshold THEN 1 ELSE 0)
    + (IF Abs(Count(content, "[") - Count(content, "]")) > threshold THEN 1 ELSE 0)

LenientThreshold == 2

FallbackThreshold == 5

\* checkForCommonIssuesLenient: the number of issues
checkForCommonIssuesLenient(content) ==
    CorruptionIssues(content) + ImbalanceIssues(content, LenientThreshold)

FunctionParen == <<"f", "u", "n", "c", "t", "i", "o", "n", "(">>

ImportSp == <<"i", "m", "p", "o", "r", "t", SP>>

From == <<"f", "r", "o", "m">>

\* checkForCommonIssuesFallback: the number of issues
checkForCommonIssuesFallback(content) ==
    CorruptionIssues(content)
    + (IF Includes(content, FunctionParen) /\ ~Includes(content, FunctionParen)
       THEN 1 ELSE 0)
    + (IF /\ Includes(content, ImportSp) /\ Includes(content, From)
          /\ ~Includes(content, <<";">>) /\ ~Includes(content, <<NL>>)
       THEN 1 ELSE 0)
    + ImbalanceIssues(content, FallbackThreshold)

\* end of the match of /<[^/][^>]*>/ at p, 0 if it does not match there
OpenTagEnd(c, p) ==
    IF c[p] = "<" /\ p + 1 <= Len(c) /\ c[p + 1] # "/"
    THEN IndexOf(c, ">", p + 2) ELSE 0

\* end of the match of /<\/[^>]*>/ at p, 0 if it does not match there
CloseTagEnd(c, p) ==
    IF c[p] = "<" /\ At(c, p + 1) = "/" THEN IndexOf(c, ">", p + 2) ELSE 0

\* end of the maximal run of characters outside [=;,\n] that starts at q
RECURSIVE RunEnd(_, _)
RunEnd(c, q) ==
    IF q + 1 <= Len(c) /\ c[q + 1] \notin {"=", ";", ",", NL}
    THEN RunEnd(c, q + 1) ELSE q

\* end of the match of /:\s*[^=;,\n]+/ at p, 0 if it does not match there
TypeAnnotationEnd(c, p) ==
    IF c[p] # ":" THEN 0
    ELSE LET w == SkipWs(c, p + 1)
         IN  IF w <= Len(c) /\ c[w] \notin {"=", ";", ",", NL} THEN RunEnd(c, w)
             ELSE IF \E q \in (p + 1)..(w - 1) : c[q] # NL
             THEN CHOOSE q \in (p + 1)..(w - 1) :
                     c[q] # NL /\ \A r \in (q + 1)..(w - 1) : c[r] = NL
             ELSE 0

\* (content.match(re) || []).length for a global regex whose match at p ends at
\* MatchEnd(c, p): the matches found left to right, none overlapping
RECURSIVE CountMatches(_, _, _)
CountMatches(MatchEnd(_, _), c, p) ==
    IF p > Len(c) THEN 0
    ELSE LET e == MatchEnd(c, p)
         IN  IF e = 0 THEN CountMatches(MatchEnd, c, p + 1)
             ELSE 1 + CountMatches(MatchEnd, c, e + 1)

ReactDot == <<"R", "e", "a", "c", "t", ".">>

ImportReact == <<"i", "m", "p", "o", "r", "t", SP, "R", "e", "a", "c", "t">>

\* checkTypeScriptIssues: the number of issues
checkTypeScriptIssues(content, path) ==
    (IF path.ext \in {".tsx", ".jsx"}
     THEN (IF CountMatches(OpenTagEnd, content, 1) # CountMatches(CloseTagEnd, content, 1)
           THEN 1 ELSE 0)
          + (IF Includes(content, ReactDot) /\ ~Includes(content, ImportReact)
             THEN 1 ELSE 0)
     ELSE 0)
    + (IF path.ext \in {".ts", ".tsx"}
       THEN (IF CountMatches(TypeAnnotationEnd, content, 1) > Count(content, ";") * 2
             THEN 1 ELSE 0)
       ELSE 0)

\* a newContent that is null instead of a string: newContent.length throws
NullContent == <<"null">>

\* a filePath that is undefined instead of a string: filePath.endsWith throws
NonStringPath == [ext |-> "undefined", base |-> "undefined"]

\* validateFix(newContent, filePath): TRUE when the fix may be written; an
\* exception inside the try block is caught and answered with true
validateFix(newContent, path) ==
    IF newContent = NullContent THEN TRUE
    ELSE
    LET content == Expand(newContent)
    IN  IF checkForCommonIssues(content) > 0
        THEN IF checkForCommonIssuesLenient(content) = 0 THEN TRUE
             ELSE checkForCommonIssuesFallback(content) = 0
        ELSE IF path = NonStringPath THEN TRUE
        ELSE IF path.ext \in {".js", ".jsx", ".ts", ".tsx"}
        THEN checkTypeScriptIssues(content, path) = 0
        ELSE TRUE

----------------------------------------------------------------------------
(* Inputs of applyFix *)

Generations == {"standard", "enhanced", "legacy"}

DigitOf == <<"1", "2", "3", "4", "5", "6", "7", "8", "9">>

\* the lines of a target file of n lines: "plain" has n different lines,
\* "blank" has an empty second line, "crlf" ends every line with a carriage return
FileLines(n, kind) ==
    [i \in 1..n |->
        IF kind = "blank" /\ i = 2 THEN <<>>
        ELSE IF kind = "crlf" THEN <<"x", DigitOf[i], CR>>
        ELSE <<"x", DigitOf[i]>>]

FileKinds == {"plain", "blank", "crlf"}

Files == {Join(FileLines(n, kind)) : n \in 1..MaxLines, kind \in FileKinds}

Indent(ls) == [i \in 1..Len(ls) |-> <<SP>> \o ls[i]]

\* the fix texts tried on a file and error line: new code (bare, of two lines,
\* fenced), a corruption literal, blank and empty text, a line of the file,
\* and the +-5 and +-2 windows themselves, re-indented, and with a final line break
FixCodes(content, errorLine) ==
    LET ls == Split(content)
        e == IF errorLine = 0 THEN 1 ELSE errorLine
        w5 == Slice(ls, Max(0, e - 5), Min(Len(ls), e + 5))
        w2 == Slice(ls, Max(0, e - 3), Min(Len(ls), e + 2))
    IN  {<<"y">>, <<"y", NL, "z">>,
         <<FENCE, "j", "s", NL, "y", NL, FENCE>>,
         <<UNDEFUNDEF>>, <<SP>>, <<>>, ls[Len(ls)],
         Join(w5), Join(Indent(w5)), Join(w5) \o <<NL>>, Join(w2)}

\* confidence in hundredths
Confidences == {50, 60, 85}

ConfidenceThreshold == 60

JsPath == [base |-> "src/a", ext |-> ".js"]

----------------------------------------------------------------------------
(* applyFix *)

NoResult == [kind |-> "none", success |-> FALSE, reason |-> "", startLine |-> 0, endLine |-> 0]

\* return false
BareFalse == [kind |-> "boolean", success |-> FALSE, reason |-> "", startLine |-> 0, endLine |-> 0]

\* return { success: false, reason }
Failure(reason) ==
    [kind |-> "object", success |-> FALSE, reason |-> reason, startLine |-> 0, endLine |-> 0]

\* return { success: true, diff, location }
Success(s, e) ==
    [kind |-> "object", success |-> TRUE, reason |-> "", startLine |-> s, endLine |-> e]

\* what the catch block of a generation returns for error.message = message
Caught(g, message) == IF g = "standard" THEN BareFalse ELSE Failure(message)

InitApply ==
    /\ gen \in Generations
    /\ filePath = JsPath
    /\ \E exists \in BOOLEAN, content \in Files :
          /\ disk = [exists |-> exists, content |-> IF exists THEN content ELSE <<>>]
          /\ \E errorLine \in 0..(MaxLines + 1), confidence \in Confidences :
                \E code \in FixCodes(content, errorLine) :
                    /\ exists \/ (errorLine = 1 /\ code = <<"y">> /\ confidence = 85
                                  /\ content = <<"x", "1">>)
                    /\ fix = [code |-> code, confidence |-> confidence,
                              errorLine |-> errorLine]
    /\ diskBefore = disk
    /\ pc = "Start"
    /\ lines = <<>>
    /\ startLine = 0
    /\ endLine = 0
    /\ newLines = <<>>
    /\ hasMeaningfulChange = FALSE
    /\ result = NoResult
    /\ writes = 0

\* const content = fs.readFileSync(filePath, 'utf8'); const lines = content.split('\n')
ReadFile ==
    /\ pc = "Start"
    /\ IF disk.exists
       THEN /\ lines' = Split(disk.content)
            /\ pc' = "Read"
            /\ UNCHANGED result
       ELSE /\ pc' = "ReadFailed"
            /\ result' = Caught(gen, "ENOENT: no such file or directory")
            /\ UNCHANGED lines
    /\ UNCHANGED <<gen, filePath, disk, diskBefore, fix, startLine, endLine,
                   newLines, hasMeaningfulChange, writes>>
    /\ UNCHANGED notApply

\* standard: findFixLocation and applyCodeFix
LocateStandard ==
    /\ pc = "Read"
    /\ gen = "standard"
    /\ LET location == findFixLocation(fix, lines)
       IN  IF location.found
           THEN /\ startLine' = location.startLine
                /\ endLine' = location.endLine
                /\ newLines' = applyCodeFix(lines, extractCodeBlocks(fix.code), location)
                /\ pc' = "Located"
                /\ UNCHANGED result
           ELSE /\ pc' = "LocationFailed"
                /\ result' = BareFalse
                /\ UNCHANGED <<startLine, endLine, newLines>>
    /\ UNCHANGED <<gen, filePath, disk, diskBefore, fix, lines,
                   hasMeaningfulChange, writes>>
    /\ UNCHANGED notApply

\* enhanced, legacy: the window around fix.errorLine || 1
LocateWindow ==
    /\ pc = "Read"
    /\ gen \in {"enhanced", "legacy"}
    /\ startLine' = WindowStart(fix)
    /\ endLine' = WindowEnd(fix, lines)
    /\ pc' = "Located"
    /\ UNCHANGED <<gen, filePath, disk, diskBefore, fix, lines, newLines,
                   hasMeaningfulChange, result, writes>>
    /\ UNCHANGED notApply

\* a validation that runs after the file has been written
ValidateAfterWrite ==
    /\ pc = "Located"
    /\ gen = "standard"
    /\ disk' = [exists |-> TRUE, content |-> Join(newLines)]
    /\ writes' = writes + 1
    /\ IF validateFix(Join(newLines), filePath)
       THEN pc' = "ValidationPassed" /\ UNCHANGED result
       ELSE pc' = "ValidationFailed" /\ result' = BareFalse
    /\ UNCHANGED <<gen, filePath, diskBefore, fix, lines, startLine, endLine,
                   newLines, hasMeaningfulChange>>
    /\ UNCHANGED notApply

\* standard: validateFix(newContent.join('\n'), filePath)
Validate ==
    /\ pc = "Located"
    /\ gen = "standard"
    /\ IF validateFix(Join(newLines), filePath)
       THEN pc' = "ValidationPassed" /\ UNCHANGED result
       ELSE pc' = "ValidationFailed" /\ result' = BareFalse
    /\ UNCHANGED <<gen, filePath, disk, diskBefore, fix, lines, startLine, endLine,
                   newLines, hasMeaningfulChange, writes>>
    /\ UNCHANGED notApply

\* the gate of a generation on a verdict m of the change test
GatePasses(g, m, fx) ==
    IF g = "enhanced" THEN m /\ fx.confidence > ConfidenceThreshold ELSE m

\* the reason a generation gives when its gate rejects
RejectReason(g, fx) ==
    IF g = "enhanced" /\ fx.confidence <= ConfidenceThreshold
    THEN "Low confidence" ELSE "No meaningful changes detected"

\* enhanced, legacy: diffLines(originalBlock, fixCode), the gate, the splice
Gate ==
    /\ pc = "Located"
    /\ gen \in {"enhanced", "legacy"}
    /\ \E m \in MeaningfulVerdicts(Join(Slice(lines, startLine, endLine)), fix.code) :
          /\ hasMeaningfulChange' = m
          /\ IF GatePasses(gen, m, fix)
             THEN /\ newLines' = Splice(lines, startLine, endLine - startLine,
                                        Split(fix.code))
                  /\ pc' = "GatePassed"
                  /\ UNCHANGED result
             ELSE /\ pc' = "Rejected"
                  /\ result' = Failure(RejectReason(gen, fix))
                  /\ UNCHANGED newLines
    /\ UNCHANGED <<gen, filePath, disk, diskBefore, fix, lines, startLine, endLine,
                   writes>>
    /\ UNCHANGED notApply

\* fs.writeFileSync(filePath, newLines.join('\n')) and the success result
WriteFile ==
    /\ pc \in {"ValidationPassed", "GatePassed"}
    /\ disk' = [exists |-> TRUE, content |-> Join(newLines)]
    /\ writes' = writes + 1
    /\ pc' = "Applied"
    /\ result' = Success(startLine, endLine)
    /\ UNCHANGED <<gen, filePath, diskBefore, fix, lines, startLine, endLine,
                   newLines, hasMeaningfulChange>>
    /\ UNCHANGED notApply

\* fs.writeFileSync throws: the file is as it was (it could not be opened) or
\* truncated (opened, then the write failed)
WriteFails ==
    /\ pc \in {"ValidationPassed", "GatePassed"}
    /\ \/ UNCHANGED disk
       \/ disk' = [exists |-> TRUE, content |-> <<>>]
    /\ pc' = "WriteFailed"
    /\ result' = Caught(gen, "EIO: i/o error, write")
    /\ UNCHANGED <<gen, filePath, diskBefore, fix, lines, startLine, endLine,
                   newLines, hasMeaningfulChange, writes>>
    /\ UNCHANGED notApply

NextApply ==
    \/ ReadFile
    \/ LocateStandard
    \/ LocateWindow
    \/ Validate
    \/ Gate
    \/ WriteFile
    \/ WriteFails

----------------------------------------------------------------------------
(* Properties of applyFix *)

Terminal == {"Applied", "Rejected", "LocationFailed", "ValidationFailed",
             "ReadFailed", "WriteFailed"}

\* the lines of the file before the call
BeforeLines == Split(diskBefore.content)

\* the 1-based inclusive range of lines the generation splices over
ReplacedStart == IF gen = "standard" THEN startLine ELSE startLine + 1

ReplacedEnd == endLine

\* the text of the original window and of the candidate that replaces it
OriginalWindow == Join(Slice(lines, ReplacedStart - 1, ReplacedEnd))

Candidate == IF gen = "standard" THEN extractCodeBlocks(fix.code)[1] ELSE fix.code

\* equal once every whitespace character is removed
SameModuloWhitespace(a, b) ==
    SelectSeq(a, LAMBDA c : ~IsWs(c)) = SelectSeq(b, LAMBDA c : ~IsWs(c))

\* C1: in every generation a file is overwritten only if the diff between the
\* original window and the candidate is meaningful and fix.confidence is at
\* least the threshold.
C1_WriteOnlyIfMeaningfulAndConfident ==
    pc = "Applied" =>
        /\ TRUE \in MeaningfulVerdicts(OriginalWindow, Candidate)
        /\ fix.confidence >= ConfidenceThreshold

\* C2: after a successful applyFix the file is the lines before the replaced
\* range, then the lines of the block, then the lines after the range, each
\* as it was (a line keeps its carriage return).
C2_FrameOutsideWindow ==
    pc = "Applied" =>
        Split(disk.content) =
            SubSeq(BeforeLines, 1, Min(ReplacedStart - 1, Len(BeforeLines)))
            \o Split(Candidate)
            \o SubSeq(BeforeLines, ReplacedEnd + 1, Len(BeforeLines))

C2_Witness ==
    /\ pc = "Applied"
    /\ ReplacedStart > 1
    /\ ReplacedEnd < Len(BeforeLines)
    /\ \E i \in 1..Len(BeforeLines) : Includes(BeforeLines[i], <<CR>>)

\* C3: when applyFix ends without success because the location could not be
\* determined, validation failed, the gate rejected the fix or the file could
\* not be read, the file is what it was and nothing was written.
C3_NoWriteOnFailure ==
    pc \in {"LocationFailed", "ValidationFailed", "Rejected", "ReadFailed"} =>
        /\ ~result.success
        /\ disk = diskBefore
        /\ writes = 0

C3_Witness ==
    /\ pc = "ValidationFailed"
    /\ Join(newLines) # diskBefore.content
    /\ disk = diskBefore

\* C4: every outcome in which the fix is not applied is a structured result
\* {success: false, reason} with reason one of "low confidence", "no
\* meaningful change", "validation failed".
C4_StructuredRejection ==
    (pc \in Terminal /\ pc # "Applied") =>
        /\ result.kind = "object"
        /\ ~result.success
        /\ result.reason \in {"low confidence", "no meaningful change",
                              "validation failed"}

\* C5: for an error line L inside the file the replaced 1-based inclusive
\* range is max(1, L-k) .. min(len, L+k), k = 2 in the standard generation
\* and k = 5 in the other two.
C5_WindowAroundErrorLine ==
    (pc = "Located" /\ fix.errorLine >= 1 /\ fix.errorLine <= Len(lines)) =>
        LET k == IF gen = "standard" THEN 2 ELSE WindowRadius
        IN  /\ ReplacedStart = Max(1, fix.errorLine - k)
            /\ ReplacedEnd = Min(Len(lines), fix.errorLine + k)

\* C6: the change gate finds no meaningful change in a candidate that equals
\* the original window once whitespace is removed.
C6_WhitespaceOnlyNotMeaningful ==
    (pc \in {"GatePassed", "Rejected"}
     /\ SameModuloWhitespace(OriginalWindow, Candidate)) => ~hasMeaningfulChange

\* C14: in every generation the file is written, and Applied entered, only
\* from ValidationPassed, that is after validateFix has passed the whole
\* proposed content.
C14_AppliedOnlyAfterValidation ==
    [][pc' = "Applied" => pc = "ValidationPassed"]_vars

\* the 1-based number of the first line of the file that contains, or once
\* trimmed is contained by, the first non-empty line of the first block
FirstMatchingLine ==
    FirstMatch(lines, Trim(NonEmptyLines(Split(extractCodeBlocks(fix.code)[1]))[1])) + 1

\* C18: without a usable error line findFixLocation returns the window of
\* radius 2 centred on the first matching line m: startLine = max(1, m - 2)
\* and endLine = min(len, m + 2).
C18_FuzzyWindowCentred ==
    (/\ pc = "Located"
     /\ gen = "standard"
     /\ ~(fix.errorLine > 0 /\ fix.errorLine <= Len(lines))) =>
        /\ startLine = Max(1, FirstMatchingLine - 2)
        /\ endLine = Min(Len(lines), FirstMatchingLine + 2)

\* C24: the confidence gate is inclusive: in the enhanced generation a fix
\* with a meaningful change whose confidence is at least the threshold
\* passes the gate; only a confidence below the threshold is rejected.
C24_GateInclusive ==
    (/\ gen = "enhanced"
     /\ pc \in {"GatePassed", "Rejected"}
     /\ hasMeaningfulChange
     /\ fix.confidence >= ConfidenceThreshold) => pc = "GatePassed"

\* the error line given with the fix is not a line of the file
ErrorLineOutside == fix.errorLine < 1 \/ fix.errorLine > Len(lines)

\* C27: applyFix does not modify the file when the given error line lies
\* outside the file, unless the fix was located by content
\* (findFixLocation's search, standard generation).
C27_NoWriteOutsideFile ==
    (pc \in Terminal /\ pc # "ReadFailed" /\ ErrorLineOutside) =>
        \/ disk = diskBefore
        \/ gen = "standard" /\ FirstMatchingLine >= 1

\* C28: in fuzzy mode findFixLocation returns a location only if a file
\* line whose trimmed content is not empty contains, or is contained by,
\* the search line; blank lines never count as a match.
C28_BlankLineNeverMatches ==
    (/\ pc = "Located"
     /\ gen = "standard"
     /\ ~(fix.errorLine > 0 /\ fix.errorLine <= Len(lines))) =>
        LET firstSearchLine ==
                Trim(NonEmptyLines(Split(extractCodeBlocks(fix.code)[1]))[1])
        IN  \E i \in 1..Len(lines) :
                /\ Len(Trim(lines[i])) > 0
                /\ \/ Includes(lines[i], firstSearchLine)
                   \/ Includes(firstSearchLine, Trim(lines[i]))

----------------------------------------------------------------------------
(* extractCodeBlocks on model responses *)

MaxBlocks == 2

\* a response is prose around fenced blocks: prose[i] precedes block i and
\* prose[n + 1] follows the last block; a block is a fence, a language tag,
\* a line break, a body and a fence
Tags == {<<>>, <<"j", "s">>, <<"J", "S">>}

Bodies == {<<"a">>, <<SP, "a", NL>>, <<"a", NL, "b">>}

Proses == {<<>>, <<SP, "p", NL>>}

Responses ==
    UNION {[prose : [1..(n + 1) -> Proses],
            fences : [1..n -> [tag : Tags, body : Bodies]]] : n \in 0..MaxBlocks}

RenderFence(f) == <<FENCE>> \o f.tag \o <<NL>> \o f.body \o <<FENCE>>

RECURSIVE RenderFrom(_, _)
RenderFrom(r, i) ==
    IF i > Len(r.fences) THEN r.prose[i]
    ELSE r.prose[i] \o RenderFence(r.fences[i]) \o RenderFrom(r, i + 1)

\* the text of a response
Render(r) == RenderFrom(r, 1)

IdleExtract ==
    /\ response = [prose |-> <<<<>>>>, fences |-> <<>>]
    /\ extracted = <<>>
    /\ extractPc = "Idle"

InitExtract ==
    /\ response \in Responses
    /\ extracted = <<>>
    /\ extractPc = "Start"

\* const codeBlocks = this.extractCodeBlocks(fix.code)
ExtractBlocks ==
    /\ extractPc = "Start"
    /\ extracted' = extractCodeBlocks(Render(response))
    /\ extractPc' = "Done"
    /\ UNCHANGED <<response, notExtract>>

NextExtract == ExtractBlocks

\* C7: on a response with N >= 1 fenced blocks extractCodeBlocks returns N
\* blocks in order, block i the trimmed body of fence i without its language
\* tag; on a response without fences it returns the trimmed response alone.
C7_OneTrimmedBodyPerFence ==
    extractPc = "Done" =>
        extracted = IF Len(response.fences) = 0 THEN <<Trim(Render(response))>>
                 ELSE [i \in 1..Len(response.fences) |-> Trim(response.fences[i].body)]

----------------------------------------------------------------------------
(* JavaScript values of a Sentry event *)

Undefined == [t |-> "undefined", s |-> <<>>, n |-> 0]

Null == [t |-> "null", s |-> <<>>, n |-> 0]

False == [t |-> "boolean", s |-> <<>>, n |-> 0]

Str(s) == [t |-> "string", s |-> s, n |-> 0]

Num(n) == [t |-> "number", s |-> <<>>, n |-> n]

\* the truthiness of a value
Truthy(v) ==
    \/ v.t = "string" /\ Len(v.s) > 0
    \/ v.t = "number" /\ v.n # 0
    \/ v.t = "boolean" /\ v.n # 0

\* a || b
OrElse(a, b) == IF Truthy(a) THEN a ELSE b

Alphabet == <<"a", "b", "c", "d", "e", "f", "g", "h", "i", "j", "k", "l", "m",
              "n", "o", "p", "q", "r", "s", "t", "u", "v", "w", "x", "y", "z">>

Capitals == <<"A", "B", "C", "D", "E", "F", "G", "H", "I", "J", "K", "L", "M",
              "N", "O", "P", "Q", "R", "S", "T", "U", "V", "W", "X", "Y", "Z">>

\* a character with its case folded, as a regex with the i flag compares it
Fold(c) ==
    IF c \in UpperCase
    THEN Alphabet[CHOOSE k \in 1..Len(Capitals) : Capitals[k] = c]
    ELSE c

\* the word w stands in t at position p (case folded when fold is set)
WordAt(t, p, w, fold) ==
    /\ p >= 1
    /\ p + Len(w) - 1 <= Len(t)
    /\ \A k \in 1..Len(w) :
          IF fold THEN Fold(t[p + k - 1]) = Fold(w[k]) ELSE t[p + k - 1] = w[k]

\* the first word of the sequence ws that stands in t at p, <<>> if none does:
\* the alternation (w1|w2|...) of a regex tried at p
FirstWordAt(t, p, ws, fold) ==
    IF \E k \in 1..Len(ws) : WordAt(t, p, ws[k], fold)
    THEN ws[CHOOSE k \in 1..Len(ws) :
                /\ WordAt(t, p, ws[k], fold)
                /\ \A j \in 1..(k - 1) : ~WordAt(t, p, ws[j], fold)]
    ELSE <<>>

NoMatch == [found |-> FALSE, text |-> <<>>]

Match(text) == [found |-> TRUE, text |-> text]

\* the least element of a non-empty set of integers, and the greatest
Least(S) == CHOOSE x \in S : \A y \in S : x <= y

Greatest(S) == CHOOSE x \in S : \A y \in S : x >= y

\* the extensions of the file regex of parseSentryDetails, in its order
Exts ==
    << <<"j", "a", "v", "a">>, <<"j", "s">>, <<"t", "s">>, <<"t", "s", "x">>,
       <<"j", "s", "x">>, <<"p", "y">>, <<"g", "o">>, <<"r", "b">>,
       <<"p", "h", "p">>, <<"c", "s">>, <<"c", "p", "p">>, <<"c">>,
       <<"k", "t">>, <<"s", "w", "i", "f", "t">> >>

\* [\w/\\.-]
IsPathChar(c) == IsWord(c) \/ c \in {"/", BSL, ".", "-"}

\* the positions d of a dot that ends [\w/\\.-]+ begun at p and is followed
\* by one of the extensions
PathDots(t, p) ==
    {d \in (p + 1)..Len(t) :
        /\ t[d] = "."
        /\ \A k \in p..(d - 1) : IsPathChar(t[k])
        /\ FirstWordAt(t, d + 1, Exts, TRUE) # <<>>}

\* jsonString.match(/[\w/\\.-]+\.(java|js|...|swift)/gi)[0] within one string
\* of the payload: the leftmost match, its run of path characters the longest
PathMatch(t) ==
    LET starts == {p \in 1..Len(t) : PathDots(t, p) # {}}
    IN  IF starts = {} THEN NoMatch
        ELSE LET p == Least(starts)
                 d == Greatest(PathDots(t, p))
             IN  Match(SubSeq(t, p, d + Len(FirstWordAt(t, d + 1, Exts, TRUE))))

Controller == <<"C", "o", "n", "t", "r", "o", "l", "l", "e", "r">>

Service == <<"S", "e", "r", "v", "i", "c", "e">>

Repository == <<"R", "e", "p", "o", "s", "i", "t", "o", "r", "y">>

IsAlnum(c) == c \in LowerCase \cup UpperCase \cup Digits

\* the positions k where Controller stands after [A-Za-z0-9]+ begun at p
ControllerAt(t, p) ==
    {k \in (p + 1)..Len(t) :
        /\ \A j \in p..(k - 1) : IsAlnum(t[j])
        /\ WordAt(t, k, Controller, FALSE)}

\* error.match(/([A-Za-z0-9]+Controller|Service|Repository)/): group 1
ClassMatch(t) ==
    LET starts == {p \in 1..Len(t) :
                      \/ ControllerAt(t, p) # {}
                      \/ WordAt(t, p, Service, FALSE)
                      \/ WordAt(t, p, Repository, FALSE)}
    IN  IF starts = {} THEN NoMatch
        ELSE LET p == Least(starts)
             IN  IF ControllerAt(t, p) # {}
                 THEN Match(SubSeq(t, p, Greatest(ControllerAt(t, p)) + Len(Controller) - 1))
                 ELSE IF WordAt(t, p, Service, FALSE) THEN Match(Service)
                 ELSE Match(Repository)

TagWords ==
    << <<"e", "n", "d", "p", "o", "i", "n", "t">>, <<"u", "r", "l">>,
       <<"r", "o", "u", "t", "e">>,
       <<"c", "o", "n", "t", "r", "o", "l", "l", "e", "r">> >>

\* /endpoint|url|route|controller/i.test(t)
IsLocationTag(t) == \E p \in 1..Len(t) : FirstWordAt(t, p, TagWords, TRUE) # <<>>

----------------------------------------------------------------------------
(* Sentry events *)

\* a stack frame without any field
NoFrame ==
    [filename |-> Undefined, abs_path |-> Undefined, module |-> Undefined,
     lineno |-> Undefined, colno |-> Undefined, in_app |-> Undefined,
     context_line |-> Undefined]

\* an event without any field; kind is "null" for a null payload, "primitive"
\* for a number in place of the object. frames and tags are "absent", a
\* "list", or a "number" in place of the array.
EmptyEvent(kind) ==
    [kind |-> kind,
     frames |-> [kind |-> "absent", list |-> <<>>],
     culprit |-> Undefined, transaction |-> Undefined,
     requestUrl |-> Undefined, requestMethod |-> Undefined,
     metadataFilename |-> Undefined, metadataLine |-> Undefined,
     logentryFilename |-> Undefined,
     tags |-> [kind |-> "absent", list |-> <<>>],
     traceOp |-> Undefined, message |-> Undefined]

SrcSlash == <<"s", "r", "c", "/">>

\* frame.filename || frame.abs_path || frame.module
FramePath(f) == OrElse(f.filename, OrElse(f.abs_path, f.module))

\* frame.pre_context || frame.context_line || frame.post_context, for frames
\* whose pre_context and post_context are absent
HasContext(f) == Truthy(f.context_line)

\* the test of the first loop of parseSentryDetails
IsAppFrame(f) ==
    /\ Truthy(FramePath(f))
    /\ Includes(FramePath(f).s, SrcSlash)
    /\ f.in_app # False
    /\ HasContext(f)

\* the frame parseSentryDetails keeps as errorFrame; NoFrame stands for null
ErrorFrame(frames) ==
    IF Len(frames) = 0 THEN NoFrame
    ELSE IF \E i \in 1..Len(frames) : IsAppFrame(frames[i])
    THEN frames[Least({i \in 1..Len(frames) : IsAppFrame(frames[i])})]
    ELSE IF \E i \in 1..Len(frames) : HasContext(frames[i])
    THEN frames[Least({i \in 1..Len(frames) : HasContext(frames[i])})]
    ELSE frames[1]

\* a second pass that finds no frame
SecondPassSkipped(frames) == 0

\* the second pass over the frames: the index of the first frame with
\* frame.filename && frame.lineno, 0 if there is none
SecondPassFrame(frames) ==
    IF \E i \in 1..Len(frames) : Truthy(frames[i].filename) /\ Truthy(frames[i].lineno)
    THEN Least({i \in 1..Len(frames) :
                    Truthy(frames[i].filename) /\ Truthy(frames[i].lineno)})
    ELSE 0

\* the chain of fallbacks 2 for file: culprit, transaction, request.url,
\* request.method, metadata.filename
FallbackFile(ev, file) ==
    LET a == IF ~Truthy(file) /\ Truthy(ev.culprit) THEN ev.culprit ELSE file
        b == IF ~Truthy(a) /\ Truthy(ev.transaction) THEN ev.transaction ELSE a
        c == IF ~Truthy(b) /\ Truthy(ev.requestUrl) THEN ev.requestUrl ELSE b
        d == IF ~Truthy(c) /\ Truthy(ev.requestMethod)
             THEN Str(ev.requestMethod.s \o <<SP>>) ELSE c
    IN  IF ~Truthy(d) /\ Truthy(ev.metadataFilename) THEN ev.metadataFilename ELSE d

\* Array.isArray(tag) && tag[0] && /endpoint|url|route|controller/i.test(tag[0])
\* for a tag that is an array of strings
IsLocationPair(tag) == Len(tag) >= 1 /\ Truthy(tag[1]) /\ IsLocationTag(tag[1].s)

\* the loop over the tags: file = tag[1] of the first matching tag
TagFile(tags, file) ==
    IF \E i \in 1..Len(tags) : IsLocationPair(tags[i])
    THEN LET tag == tags[Least({i \in 1..Len(tags) : IsLocationPair(tags[i])})]
         IN  IF Len(tag) >= 2 THEN tag[2] ELSE Undefined
    ELSE file

RECURSIVE Concat(_)
Concat(ss) == IF Len(ss) = 0 THEN <<>> ELSE ss[1] \o Concat(Tail(ss))

\* the string values of the payload, in the order JSON.stringify writes them
\* when the payload lists its keys in this order
EventStrings(ev) ==
    LET values ==
            Concat([i \in 1..Len(ev.frames.list) |->
                      <<ev.frames.list[i].filename, ev.frames.list[i].abs_path,
                        ev.frames.list[i].module, ev.frames.list[i].context_line>>])
            \o <<ev.culprit, ev.transaction, ev.requestUrl, ev.requestMethod,
                 ev.metadataFilename, ev.logentryFilename>>
            \o Concat(ev.tags.list)
            \o <<ev.traceOp, ev.message>>
    IN  SelectSeq(values, LAMBDA v : v.t = "string")

\* step 9: the first match of the file regex in the serialized payload
JsonPathMatch(ev) ==
    LET strs == EventStrings(ev)
        hits == {i \in 1..Len(strs) : PathMatch(strs[i].s).found}
    IN  IF hits = {} THEN NoMatch ELSE PathMatch(strs[Least(hits)].s)

\* the body of the try block threw
Thrown == [threw |-> TRUE, file |-> Null, line |-> Null, col |-> Null]

\* return { file, line, col, ... }
Returned(file, line, col) == [threw |-> FALSE, file |-> file, line |-> line, col |-> col]

\* steps 5 to 9 for file, after the tags and contexts.trace.op
LastResortFile(ev, file) ==
    LET error == OrElse(ev.message, Null)
        e == IF ~Truthy(file) /\ Truthy(error) /\ ClassMatch(error.s).found
             THEN Str(ClassMatch(error.s).text) ELSE file
        f == IF ~Truthy(e) /\ Truthy(ev.transaction) THEN ev.transaction ELSE e
    IN  IF ~Truthy(f) /\ JsonPathMatch(ev).found THEN Str(JsonPathMatch(ev).text) ELSE f

\* the try block of parseSentryDetails
ParseBody(ev) ==
    IF ev.kind = "null" THEN Thrown
    ELSE
    LET frames == ev.frames.list
        errorFrame == ErrorFrame(frames)
        file0 == OrElse(errorFrame.filename,
                        OrElse(errorFrame.abs_path, OrElse(errorFrame.module, Null)))
        line0 == OrElse(errorFrame.lineno, Null)
        col0 == OrElse(errorFrame.colno, Null)
        again == ~Truthy(file0) \/ ~Truthy(line0)
        i == IF again THEN SecondPassFrame(frames) ELSE 0
        file1 == IF i = 0 THEN file0 ELSE FramePath(frames[i])
        line1 == IF i = 0 THEN line0 ELSE frames[i].lineno
        col1 == IF i = 0 THEN col0 ELSE frames[i].colno
        file2 == FallbackFile(ev, file1)
        line2 == IF ~Truthy(line1) /\ Truthy(ev.metadataLine)
                 THEN ev.metadataLine ELSE line1
        file3 == IF ~Truthy(file2) THEN TagFile(ev.tags.list, file2) ELSE file2
        file4 == IF ~Truthy(file3) /\ Truthy(ev.traceOp) THEN ev.traceOp ELSE file3
        error == OrElse(ev.message, Null)
    IN  \* for (const frame of frames || []) on a number
        IF again /\ ev.frames.kind = "number" THEN Thrown
        \* for (const tag of sentryEvent.tags) on a number
        ELSE IF ~Truthy(file2) /\ ev.tags.kind = "number" THEN Thrown
        \* error.match on a number
        ELSE IF ~Truthy(file4) /\ Truthy(error) /\ error.t # "string" THEN Thrown
        ELSE Returned(LastResortFile(ev, file4), line2, col1)

\* the body without its catch block
parseSentryDetailsNoCatch(sentryEvent_) == ParseBody(sentryEvent_)

\* parseSentryDetails: the catch block returns the record of nulls
parseSentryDetails(sentryEvent_) ==
    LET r == ParseBody(sentryEvent_)
    IN  IF r.threw THEN Returned(Null, Null, Null) ELSE r

----------------------------------------------------------------------------
(* parseSentryDetails on event payloads *)

MaxFrames == 2

SrcAJs == <<"s", "r", "c", "/", "a", ".", "j", "s">>

\* an application frame with source context
AppFrame ==
    [NoFrame EXCEPT !.filename = Str(SrcAJs), !.lineno = Num(3), !.colno = Num(7),
                    !.context_line = Str(<<"x">>)]

\* a library frame: no src/ in its path, no extension, no context
LibFrame ==
    [NoFrame EXCEPT !.filename = Str(<<"l", "i", "b", "/", "b">>),
                    !.lineno = Num(9), !.in_app = False]

ContextOnlyFrame == [NoFrame EXCEPT !.context_line = Str(<<"x">>)]

NoLineFrame == [NoFrame EXCEPT !.filename = Str(SrcAJs)]

ModuleFrame == [NoFrame EXCEPT !.module = Str(<<"m">>), !.lineno = Num(2)]

AbsPathFrame ==
    [NoFrame EXCEPT !.abs_path = Str(<<"/", "s", "r", "c", "/", "c", ".", "t", "s">>),
                    !.lineno = Num(5)]

ParseFrames ==
    {AppFrame, LibFrame, ContextOnlyFrame, NoLineFrame, ModuleFrame, AbsPathFrame,
     NoFrame}

FrameChoices ==
    {[kind |-> "absent", list |-> <<>>], [kind |-> "number", list |-> <<>>]}
    \cup {[kind |-> "list", list |-> fs] :
             fs \in UNION {[1..n -> ParseFrames] : n \in 0..MaxFrames}}

Url == <<"u", "r", "l">>

TagChoices ==
    {[kind |-> "absent", list |-> <<>>], [kind |-> "number", list |-> <<>>],
     [kind |-> "list", list |-> << <<Str(Url), Str(<<"/", "x">>)>> >>],
     [kind |-> "list", list |-> << <<Str(Url)>> >>],
     [kind |-> "list", list |-> << <<Str(<<"e", "n", "v">>), Str(<<"p">>)>> >>]}

Messages ==
    {Undefined, Str(<<"X">> \o Controller), Str(<<"b", "o", "o", "m">>), Num(42)}

FallbackChoices ==
    {"none", "culprit", "transaction", "url", "method", "metadata", "traceOp"}

WithFallback(ev, c) ==
    CASE c = "culprit" -> [ev EXCEPT !.culprit = Str(<<"c">>)]
      [] c = "transaction" -> [ev EXCEPT !.transaction = Str(<<"t">>)]
      [] c = "url" -> [ev EXCEPT !.requestUrl = Str(<<"/", "u">>)]
      [] c = "method" -> [ev EXCEPT !.requestMethod = Str(<<"G", "E", "T">>)]
      [] c = "metadata" -> [ev EXCEPT !.metadataFilename = Str(<<"m", ".", "p", "y">>)]
      [] c = "traceOp" -> [ev EXCEPT !.traceOp = Str(<<"o", "p">>)]
      [] OTHER -> ev

ParseEvents ==
    {EmptyEvent("null"), EmptyEvent("primitive")}
    \cup {[WithFallback(EmptyEvent("object"), c) EXCEPT
              !.frames = fr, !.tags = tg, !.message = msg, !.metadataLine = ml] :
             fr \in FrameChoices, tg \in TagChoices, msg \in Messages,
             ml \in {Undefined, Num(4)}, c \in FallbackChoices}

NoDetails == [threw |-> FALSE, file |-> Undefined, line |-> Undefined, col |-> Undefined]

IdleParse ==
    /\ sentryEvent = EmptyEvent("object")
    /\ errorDetails = NoDetails
    /\ parsePc = "Idle"

InitParse ==
    /\ sentryEvent \in ParseEvents
    /\ errorDetails = NoDetails
    /\ parsePc = "Start"

\* const errorDetails = parseSentryDetails(sentryEvent)
Parse ==
    /\ parsePc = "Start"
    /\ errorDetails' = parseSentryDetails(sentryEvent)
    /\ parsePc' = "Done"
    /\ UNCHANGED <<sentryEvent, notParse>>

NextParse == Parse

\* no source of the payload yields a file, a line or a column
Unresolvable(ev) ==
    \/ ev.kind # "object"
    \/ /\ \A i \in 1..Len(ev.frames.list) :
             LET f == ev.frames.list[i]
             IN  ~Truthy(FramePath(f)) /\ ~Truthy(f.lineno) /\ ~Truthy(f.colno)
       /\ ~Truthy(ev.culprit) /\ ~Truthy(ev.transaction) /\ ~Truthy(ev.requestUrl)
       /\ ~Truthy(ev.requestMethod) /\ ~Truthy(ev.metadataFilename)
       /\ ~Truthy(ev.metadataLine) /\ ~Truthy(ev.traceOp)
       /\ \A i \in 1..Len(ev.tags.list) : ~IsLocationPair(ev.tags.list[i])
       /\ ~(ev.message.t = "string" /\ ClassMatch(ev.message.s).found)
       /\ ~JsonPathMatch(ev).found

C9_FrameWithFileAndLine ==
    (/\ parsePc = "Done"
     /\ \E i \in 1..Len(sentryEvent.frames.list) :
           /\ Truthy(sentryEvent.frames.list[i].filename)
           /\ Truthy(sentryEvent.frames.list[i].lineno)) =>
        /\ errorDetails.file.t = "string"
        /\ Len(errorDetails.file.s) > 0

C9_Witness ==
    /\ parsePc = "Done"
    /\ sentryEvent.frames.list = <<ContextOnlyFrame, LibFrame>>
    /\ sentryEvent.tags.kind = "number"
    /\ errorDetails.file = LibFrame.filename

\* the value of file after each strategy of parseSentryDetails, for a
\* payload whose frames and tags are arrays or absent: the chosen frame, the
\* second pass, the fallbacks 2, the tags, contexts.trace.op, steps 5 to 9
FileChain(ev) ==
    LET frames == ev.frames.list
        errorFrame == ErrorFrame(frames)
        file0 == OrElse(errorFrame.filename,
                        OrElse(errorFrame.abs_path, OrElse(errorFrame.module, Null)))
        line0 == OrElse(errorFrame.lineno, Null)
        i == IF ~Truthy(file0) \/ ~Truthy(line0) THEN SecondPassFrame(frames) ELSE 0
        file1 == IF i = 0 THEN file0 ELSE FramePath(frames[i])
        file2 == FallbackFile(ev, file1)
        file3 == IF ~Truthy(file2) THEN TagFile(ev.tags.list, file2) ELSE file2
        file4 == IF ~Truthy(file3) /\ Truthy(ev.traceOp) THEN ev.traceOp ELSE file3
    IN  <<file0, file1, file2, file3, file4, LastResortFile(ev, file4)>>

\* C15: the first strategy of the chain that resolves a file decides the
\* file parseSentryDetails returns; no later strategy replaces it.
C15_FirstSuccessWins ==
    (parsePc = "Done" /\ sentryEvent.kind = "object" /\ ~ParseBody(sentryEvent).threw) =>
        \A k \in 1..Len(FileChain(sentryEvent)) :
            Truthy(FileChain(sentryEvent)[k]) =>
                errorDetails.file = FileChain(sentryEvent)[k]

\* a frame of the application source: its path is under src/ and it is not
\* flagged in_app = false
IsSourceFrame(f) ==
    /\ Truthy(FramePath(f))
    /\ Includes(FramePath(f).s, SrcSlash)
    /\ f.in_app # False

\* C16: when the frame list holds a frame of the application source,
\* parseSentryDetails returns the file of such a frame, and of one with
\* source text when one of them has source text.
C16_ApplicationFramePreferred ==
    (/\ parsePc = "Done"
     /\ sentryEvent.kind = "object"
     /\ \E i \in 1..Len(sentryEvent.frames.list) :
            IsSourceFrame(sentryEvent.frames.list[i])) =>
        \E i \in 1..Len(sentryEvent.frames.list) :
            /\ IsSourceFrame(sentryEvent.frames.list[i])
            /\ errorDetails.file = FramePath(sentryEvent.frames.list[i])
            /\ (\E j \in 1..Len(sentryEvent.frames.list) :
                    IsAppFrame(sentryEvent.frames.list[j]))
                => HasContext(sentryEvent.frames.list[i])

----------------------------------------------------------------------------
(* extractSrcFrame *)

JsExts == << <<"j", "s">>, <<"t", "s">>, <<"j", "s", "x">>, <<"t", "s", "x">> >>

\* /\.(js|ts|jsx|tsx)$/.test(t)
EndsWithJsExt(t) ==
    \E k \in 1..Len(JsExts) :
        LET w == <<".">> \o JsExts[k]
        IN  Len(t) >= Len(w) /\ WordAt(t, Len(t) - Len(w) + 1, w, FALSE)

\* v && v.includes('src/') && /\.(js|ts|jsx|tsx)$/.test(v)
IsSrcFile(v) == Truthy(v) /\ Includes(v.s, SrcSlash) /\ EndsWithJsExt(v.s)

\* the positions d of a dot that ends src\/[^"']+ begun at p and is followed
\* by one of the four extensions
SrcDots(t, p) ==
    {d \in (p + 5)..Len(t) :
        /\ WordAt(t, p, SrcSlash, FALSE)
        /\ t[d] = "."
        /\ \A k \in (p + 4)..(d - 1) : t[k] \notin {DQ, SQ}
        /\ FirstWordAt(t, d + 1, JsExts, FALSE) # <<>>}

\* jsonString.match(/src\/[^"']+\.(js|ts|jsx|tsx)/)[0] within one string of
\* the payload
SrcMatch(t) ==
    LET starts == {p \in 1..Len(t) : SrcDots(t, p) # {}}
    IN  IF starts = {} THEN NoMatch
        ELSE LET p == Least(starts)
                 d == Greatest(SrcDots(t, p))
             IN  Match(SubSeq(t, p, d + Len(FirstWordAt(t, d + 1, JsExts, FALSE))))

JsonSrcMatch(ev) ==
    LET strs == EventStrings(ev)
        hits == {i \in 1..Len(strs) : SrcMatch(strs[i].s).found}
    IN  IF hits = {} THEN NoMatch ELSE SrcMatch(strs[Least(hits)].s)

SrcFrame(file, line) == [file |-> file, line |-> line]

extractSrcFrame(ev) ==
    LET frames == ev.frames.list
        hits == {i \in 1..Len(frames) :
                    IsSrcFile(frames[i].filename) \/ IsSrcFile(frames[i].abs_path)}
    IN  IF hits # {}
        THEN LET f == frames[Greatest(hits)]
             IN  SrcFrame(OrElse(f.filename, f.abs_path), OrElse(f.lineno, Null))
        ELSE IF Truthy(ev.logentryFilename) THEN SrcFrame(ev.logentryFilename, Null)
        ELSE IF Truthy(ev.metadataFilename)
        THEN SrcFrame(ev.metadataFilename, OrElse(ev.metadataLine, Null))
        ELSE IF Truthy(ev.culprit) THEN SrcFrame(ev.culprit, Null)
        ELSE IF Truthy(ev.transaction) THEN SrcFrame(ev.transaction, Null)
        ELSE IF JsonSrcMatch(ev).found THEN SrcFrame(Str(JsonSrcMatch(ev).text), Null)
        ELSE IF Len(frames) > 0
        THEN LET last == frames[Len(frames)]
             IN  SrcFrame(OrElse(last.filename, OrElse(last.abs_path, Null)),
                          OrElse(last.lineno, Null))
        ELSE SrcFrame(Null, Null)

----------------------------------------------------------------------------
(* The webhook handlers: "first" is the handler of src/index.js 548-939,    *)
(* "second" the handler of src/index.js 1309-1697 with its Java and Next.js *)
(* flows.                                                                   *)

Handlers == {"first", "second"}

JavaRepo == "5x-platform-nextgen"

NextRepo == "5x-platform-nextgen-ui"

RepoNames == {JavaRepo, NextRepo, "other"}

WithFrames(fs) == [EmptyEvent("object") EXCEPT !.frames = [kind |-> "list", list |-> fs]]

PipelineEvents ==
    {EmptyEvent("object"),
     WithFrames(<<AppFrame>>), WithFrames(<<NoLineFrame>>), WithFrames(<<LibFrame>>),
     WithFrames(<<AbsPathFrame>>), WithFrames(<<ContextOnlyFrame, LibFrame>>),
     WithFallback(EmptyEvent("object"), "culprit"),
     [WithFallback(EmptyEvent("object"), "metadata") EXCEPT !.metadataLine = Num(4)],
     [EmptyEvent("object") EXCEPT !.logentryFilename = Str(SrcAJs)]}

IdlePipeline ==
    /\ handler = "first"
    /\ repoName = "other"
    /\ pipeEvent = EmptyEvent("object")
    /\ srcFrame = SrcFrame(Undefined, Undefined)
    /\ located = FALSE
    /\ pipePc = "Idle"
    /\ modelCalls = 0
    /\ fileWrites = 0

InitPipeline ==
    /\ handler \in Handlers
    /\ repoName \in RepoNames
    /\ pipeEvent \in PipelineEvents
    /\ srcFrame = SrcFrame(Undefined, Undefined)
    /\ located = FALSE
    /\ pipePc = "Start"
    /\ modelCalls = 0
    /\ fileWrites = 0

\* first handler: the clone methods, one succeeds or all fail
CloneFirst ==
    /\ handler = "first"
    /\ pipePc = "Start"
    /\ pipePc' \in {"Cloned", "Failed"}
    /\ UNCHANGED <<handler, repoName, pipeEvent, srcFrame, located, modelCalls,
                   fileWrites>>
    /\ UNCHANGED notPipeline

\* first handler: parseSentryDetails and the check of file and line
LocateFirst ==
    /\ handler = "first"
    /\ pipePc = "Cloned"
    /\ srcFrame' = SrcFrame(parseSentryDetails(pipeEvent).file,
                            parseSentryDetails(pipeEvent).line)
    /\ pipePc' = IF ~Truthy(srcFrame'.file) \/ ~Truthy(srcFrame'.line)
                 THEN "LocationFailure" ELSE "Located"
    /\ located' = TRUE
    /\ UNCHANGED <<handler, repoName, pipeEvent, modelCalls, fileWrites>>
    /\ UNCHANGED notPipeline

\* first handler: analyzeError; buildContext throws, or the model is called
\* and the analysis holds fixes or none
AnalyzeFirst ==
    /\ handler = "first"
    /\ pipePc = "Located"
    /\ \/ pipePc' = "Failed" /\ UNCHANGED modelCalls
       \/ pipePc' \in {"NoFixes", "Analyzed"} /\ modelCalls' = modelCalls + 1
    /\ UNCHANGED <<handler, repoName, pipeEvent, srcFrame, located, fileWrites>>
    /\ UNCHANGED notPipeline

\* first handler: applyFix on the target file of the new branch
ApplyFirst ==
    /\ handler = "first"
    /\ pipePc = "Analyzed"
    /\ \/ pipePc' = "Applied" /\ fileWrites' = fileWrites + 1
       \/ pipePc' = "NotApplied" /\ UNCHANGED fileWrites
    /\ UNCHANGED <<handler, repoName, pipeEvent, srcFrame, located, modelCalls>>
    /\ UNCHANGED notPipeline

\* second handler: extractSrcFrame and the check of file
LocateSecond ==
    /\ handler = "second"
    /\ pipePc = "Start"
    /\ srcFrame' = extractSrcFrame(pipeEvent)
    /\ pipePc' = IF ~Truthy(srcFrame'.file) THEN "LocationFailure" ELSE "Located"
    /\ located' = TRUE
    /\ UNCHANGED <<handler, repoName, pipeEvent, modelCalls, fileWrites>>
    /\ UNCHANGED notPipeline

\* second handler: git.clone
CloneSecond ==
    /\ handler = "second"
    /\ pipePc = "Located"
    /\ pipePc' \in {"Cloned", "Failed"}
    /\ UNCHANGED <<handler, repoName, pipeEvent, srcFrame, located, modelCalls,
                   fileWrites>>
    /\ UNCHANGED notPipeline

\* second handler: the target file exists or the search maps it, or the issue
\* gets the comment that it could not be mapped; other repositories are skipped
MapTarget ==
    /\ handler = "second"
    /\ pipePc = "Cloned"
    /\ IF repoName \in {JavaRepo, NextRepo}
       THEN pipePc' \in {"Mapped", "Unmapped"}
       ELSE pipePc' = "Skipped"
    /\ UNCHANGED <<handler, repoName, pipeEvent, srcFrame, located, modelCalls,
                   fileWrites>>
    /\ UNCHANGED notPipeline

\* Java flow: the chat completion on the code around sentryDetails.line
JavaModelCall ==
    /\ handler = "second"
    /\ repoName = JavaRepo
    /\ pipePc = "Mapped"
    /\ modelCalls' = modelCalls + 1
    /\ pipePc' \in {"Answered", "Failed"}
    /\ UNCHANGED <<handler, repoName, pipeEvent, srcFrame, located, fileWrites>>
    /\ UNCHANGED notPipeline

\* Java flow: a non-empty answer is written over the block or the file
JavaWrite ==
    /\ handler = "second"
    /\ repoName = JavaRepo
    /\ pipePc = "Answered"
    /\ \/ pipePc' = "Written" /\ fileWrites' = fileWrites + 1
       \/ pipePc' = "NoFix" /\ UNCHANGED fileWrites
    /\ UNCHANGED <<handler, repoName, pipeEvent, srcFrame, located, modelCalls>>
    /\ UNCHANGED notPipeline

\* Next.js flow: the analysis prompt
NextAnalysisCall ==
    /\ handler = "second"
    /\ repoName = NextRepo
    /\ pipePc = "Mapped"
    /\ modelCalls' = modelCalls + 1
    /\ pipePc' \in {"Commented", "Failed"}
    /\ UNCHANGED <<handler, repoName, pipeEvent, srcFrame, located, fileWrites>>
    /\ UNCHANGED notPipeline

\* Next.js flow: the fix prompt
NextFixCall ==
    /\ handler = "second"
    /\ repoName = NextRepo
    /\ pipePc = "Commented"
    /\ modelCalls' = modelCalls + 1
    /\ pipePc' \in {"Answered", "Failed"}
    /\ UNCHANGED <<handler, repoName, pipeEvent, srcFrame, located, fileWrites>>
    /\ UNCHANGED notPipeline

\* Next.js flow: the block around sentryDetails.line is replaced and the file
\* written when the change is meaningful
NextWrite ==
    /\ handler = "second"
    /\ repoName = NextRepo
    /\ pipePc = "Answered"
    /\ \/ pipePc' = "Written" /\ fileWrites' = fileWrites + 1
       \/ pipePc' = "NotMeaningful" /\ UNCHANGED fileWrites
    /\ UNCHANGED <<handler, repoName, pipeEvent, srcFrame, located, modelCalls>>
    /\ UNCHANGED notPipeline

NextPipeline ==
    \/ CloneFirst
    \/ LocateFirst
    \/ AnalyzeFirst
    \/ ApplyFirst
    \/ LocateSecond
    \/ CloneSecond
    \/ MapTarget
    \/ JavaModelCall
    \/ JavaWrite
    \/ NextAnalysisCall
    \/ NextFixCall
    \/ NextWrite

\* C10: once the location of the event is computed with a null file or a
\* null line, the model is never called and no file of the working copy is
\* written.
C10_NoModelCallWithoutLocation ==
    (located /\ (~Truthy(srcFrame.file) \/ ~Truthy(srcFrame.line))) =>
        /\ modelCalls = 0
        /\ fileWrites = 0

----------------------------------------------------------------------------
(* ContextBuilder.buildContext (src/src/utils/contextBuilder.js)          *)
(*                                                                         *)
(* A text is known here by its length in UTF-16 code units, which is all   *)
(* estimateTokens reads; body names the kind of text a section carries.    *)

MaxRelated == 2

\* new ContextBuilder(options.maxTokens): budgets the constructor may be given
TokenBudgets == {10, 40}

\* estimateTokens: Math.ceil(text.length / 4)
TokensPerChar == 4

estimateTokens(len) == (len + TokensPerChar - 1) \div TokensPerChar

\* a file of n lines, each w characters wide (content.split('\n') never is empty)
TextFile(n, w) == [exists |-> TRUE, readable |-> TRUE, widths |-> [i \in 1..n |-> w]]

MissingFile == [exists |-> FALSE, readable |-> FALSE, widths |-> <<>>]

\* a path that exists and cannot be read as a file (a directory, no permission)
UnreadableFile == [exists |-> TRUE, readable |-> FALSE, widths |-> <<>>]

\* length of the decimal spelling of a line number
NumLen(n) == IF n < 10 THEN 1 ELSE IF n < 100 THEN 2 ELSE 3

RECURSIVE SumFrom(_, _)
SumFrom(s, i) == IF i > Len(s) THEN 0 ELSE s[i] + SumFrom(s, i + 1)

\* arr.join('\n') of lines with the given lengths
JoinLen(lens) == IF Len(lens) = 0 THEN 0 ELSE SumFrom(lens, 1) + Len(lens) - 1

ThrownText == [thrown |-> TRUE, len |-> 0]

ReturnedText(len) == [thrown |-> FALSE, len |-> len]

\* the try block of getFileContent: the lines startLine..endLine, each
\* prefixed by its number, a colon and a space
getFileContentNoCatch(file, startLine_, endLine_) ==
    IF ~file.readable THEN ThrownText
    ELSE LET relevantLines == Slice(file.widths, startLine_ - 1, endLine_)
         IN  ReturnedText(JoinLen([i \in 1..Len(relevantLines) |->
                 NumLen(startLine_ + i - 1) + 2 + relevantLines[i]]))

getFileContent(file, startLine_, endLine_) ==
    IF ~file.readable THEN ReturnedText(0)
    ELSE getFileContentNoCatch(file, startLine_, endLine_)

\* findRelatedFiles: [] when the file is missing or unreadable, otherwise
\* what glob.sync matches for its imports
findRelatedFiles(file, matches) ==
    IF ~file.exists \/ ~file.readable THEN <<>> ELSE matches

\* entries of a directory: a file, a directory, an entry statSync fails on,
\* or an entry whose name holds one of the ignore patterns
FileItem(nameLen) == [kind |-> "file", nameLen |-> nameLen, readable |-> TRUE, items |-> <<>>]

DirItem(nameLen, readable, items) ==
    [kind |-> "dir", nameLen |-> nameLen, readable |-> readable, items |-> items]

BrokenItem == [kind |-> "broken", nameLen |-> 1, readable |-> FALSE, items |-> <<>>]

IgnoredItem == [kind |-> "ignored", nameLen |-> 12, readable |-> TRUE, items |-> <<>>]

\* length of the two-code-unit icon and the space after it
IconLen == 3

\* buildTree(dir, level): the lengths of the lines pushed on structure
RECURSIVE buildTree(_, _, _)
buildTree(items, level, i) ==
    IF i > Len(items) THEN <<>>
    ELSE LET item == items[i]
             rest == buildTree(items, level, i + 1)
         IN  IF item.kind = "ignored" \/ item.kind = "broken" THEN rest
             ELSE IF item.kind = "dir"
             THEN <<2 * level + IconLen + item.nameLen + 1>>
                  \o (IF item.readable THEN buildTree(item.items, level + 1, 1) ELSE <<>>)
                  \o rest
             ELSE <<2 * level + IconLen + item.nameLen>> \o rest

RepositoryNotFound == [body |-> "Repository not found", len |-> 20]

\* getProjectStructure(repoPath)
getProjectStructure(dir) ==
    IF ~dir.exists THEN RepositoryNotFound
    ELSE [body |-> "tree",
          len |-> IF dir.readable THEN JoinLen(buildTree(dir.items, 0, 1)) ELSE 0]

FileNotFound == [body |-> "File not found in repository", len |-> 28]

Section(kind, body, len) == [kind |-> kind, body |-> body, len |-> len]

\* inputs of a buildContext call
ErrorFiles == {MissingFile, UnreadableFile, TextFile(1, 3), TextFile(12, 3), TextFile(30, 3)}

ErrorLines == {1, 15}

RelatedChoices == {UnreadableFile, TextFile(1, 3), TextFile(30, 3)}

RECURSIVE SeqsUpTo(_, _)
SeqsUpTo(S, n) ==
    IF n = 0 THEN {<<>>}
    ELSE SeqsUpTo(S, n - 1) \cup
         {Append(s, x) : s \in {t \in SeqsUpTo(S, n - 1) : Len(t) = n - 1}, x \in S}

RepoDirs ==
    { [exists |-> FALSE, readable |-> FALSE, items |-> <<>>],
      [exists |-> TRUE, readable |-> FALSE, items |-> <<>>],
      [exists |-> TRUE, readable |-> TRUE, items |-> <<FileItem(5)>>],
      [exists |-> TRUE, readable |-> TRUE,
       items |-> <<IgnoredItem, BrokenItem, FileItem(5)>>],
      [exists |-> TRUE, readable |-> TRUE,
       items |-> <<DirItem(3, TRUE, <<FileItem(8), BrokenItem, FileItem(8)>>),
                   DirItem(3, FALSE, <<>>), FileItem(9), FileItem(9), FileItem(9),
                   FileItem(9)>>] }

IdleContext ==
    /\ maxTokens = 0
    /\ errorFile = MissingFile
    /\ errorLineArg = 1
    /\ globMatches = <<>>
    /\ repoDir = [exists |-> FALSE, readable |-> FALSE, items |-> <<>>]
    /\ bundle = <<>>
    /\ currentTokens = 0
    /\ relatedFiles = <<>>
    /\ relatedIndex = 0
    /\ skipped = FALSE
    /\ contextPc = "Idle"

\* buildContext(errorFile, errorLine, repoPath) is entered: context = '',
\* this.currentTokens = 0
InitContext ==
    /\ maxTokens \in TokenBudgets
    /\ errorFile \in ErrorFiles
    /\ errorLineArg \in ErrorLines
    /\ globMatches \in SeqsUpTo(RelatedChoices, MaxRelated)
    /\ repoDir \in RepoDirs
    /\ bundle = <<>>
    /\ currentTokens = 0
    /\ relatedFiles = <<>>
    /\ relatedIndex = 0
    /\ skipped = FALSE
    /\ contextPc = "Target"

\* step 1: the window of the error file, or the placeholder, and then the
\* list of related files of step 2
TargetSection ==
    /\ contextPc = "Target"
    /\ IF errorFile.exists
       THEN LET errorContext == getFileContent(errorFile, Max(1, errorLineArg - 10),
                                               errorLineArg + 10)
            IN  IF errorContext.thrown
                THEN /\ contextPc' = "Thrown"
                     /\ UNCHANGED <<bundle, currentTokens, relatedFiles>>
                ELSE /\ bundle' = Append(bundle, Section("target", "text", errorContext.len))
                     /\ currentTokens' = currentTokens + estimateTokens(errorContext.len)
                     /\ relatedFiles' = findRelatedFiles(errorFile, globMatches)
                     /\ contextPc' = "Related"
       ELSE /\ bundle' = Append(bundle, Section("target", FileNotFound.body, FileNotFound.len))
            /\ relatedFiles' = <<>>
            /\ contextPc' = "Related"
            /\ UNCHANGED currentTokens
    /\ relatedIndex' = 1
    /\ UNCHANGED <<maxTokens, errorFile, errorLineArg, globMatches, repoDir, skipped>>
    /\ UNCHANGED notContext

\* step 2: one turn of the loop over the related files
RelatedSection ==
    /\ contextPc = "Related"
    /\ relatedIndex <= Len(relatedFiles)
    /\ IF currentTokens >= maxTokens
       THEN /\ contextPc' = "Structure"
            /\ UNCHANGED <<bundle, currentTokens, relatedIndex, skipped>>
       ELSE LET fileContent == getFileContent(relatedFiles[relatedIndex], 1, 50)
                tokens == estimateTokens(fileContent.len)
            IN  /\ IF fileContent.thrown
                   THEN /\ contextPc' = "Thrown"
                        /\ UNCHANGED <<bundle, currentTokens, skipped>>
                   ELSE IF currentTokens + tokens <= maxTokens
                   THEN /\ bundle' = Append(bundle, Section("related", "text", fileContent.len))
                        /\ currentTokens' = currentTokens + tokens
                        /\ UNCHANGED <<contextPc, skipped>>
                   ELSE /\ skipped' = TRUE
                        /\ UNCHANGED <<bundle, currentTokens, contextPc>>
                /\ relatedIndex' = relatedIndex + 1
    /\ UNCHANGED <<maxTokens, errorFile, errorLineArg, globMatches, repoDir, relatedFiles>>
    /\ UNCHANGED notContext

\* step 2 ends: every related file has had its turn
RelatedDone ==
    /\ contextPc = "Related"
    /\ relatedIndex > Len(relatedFiles)
    /\ contextPc' = "Structure"
    /\ UNCHANGED <<maxTokens, errorFile, errorLineArg, globMatches, repoDir, bundle,
                   currentTokens, relatedFiles, relatedIndex, skipped>>
    /\ UNCHANGED notContext

\* step 3: the project structure, and the return of the context
StructureSection ==
    /\ contextPc = "Structure"
    /\ LET projectStructure == getProjectStructure(repoDir)
           structureTokens == estimateTokens(projectStructure.len)
       IN  IF currentTokens + structureTokens <= maxTokens
           THEN bundle' = Append(bundle, Section("structure", projectStructure.body,
                                                 projectStructure.len))
           ELSE UNCHANGED bundle
    /\ contextPc' = "Done"
    /\ UNCHANGED <<maxTokens, errorFile, errorLineArg, globMatches, repoDir,
                   currentTokens, relatedFiles, relatedIndex, skipped>>
    /\ UNCHANGED notContext

NextContext ==
    \/ TargetSection
    \/ RelatedSection
    \/ RelatedDone
    \/ StructureSection

\* the token estimates of the sections of a bundle, summed
RECURSIVE SectionTokens(_, _)
SectionTokens(sections, i) ==
    IF i > Len(sections) THEN 0
    ELSE estimateTokens(sections[i].len) + SectionTokens(sections, i + 1)

\* C11: the token estimates of the sections buildContext has included (the
\* target window, the related files, the directory tree) never sum to more
\* than maxTokens.
C11_IncludedWithinBudget ==
    contextPc \in {"Related", "Structure", "Done"} =>
        SectionTokens(bundle, 1) <= maxTokens

\* C12: buildContext never throws and always runs to its return; a missing
\* target file gives the "File not found in repository" placeholder, an
\* unreadable one an empty window, a missing repository directory the
\* "Repository not found" placeholder and an unreadable one an empty tree.
C12_ContextNeverThrows ==
    /\ contextPc # "Thrown"
    /\ contextPc \in {"Target", "Related", "Structure"} => ENABLED NextContext
    /\ contextPc = "Done" =>
        /\ Len(bundle) >= 1
        /\ bundle[1].kind = "target"
        /\ ~errorFile.exists => bundle[1].body = "File not found in repository"
        /\ (errorFile.exists /\ ~errorFile.readable) =>
               (bundle[1].body = "text" /\ bundle[1].len = 0)
        /\ \A i \in 1..Len(bundle) :
               bundle[i].kind = "structure" =>
                   /\ ~repoDir.exists => bundle[i].body = "Repository not found"
                   /\ (repoDir.exists /\ ~repoDir.readable) => bundle[i].len = 0

C12_Witness ==
    /\ contextPc = "Done"
    /\ errorFile.exists
    /\ ~errorFile.readable
    /\ ~repoDir.exists
    /\ Len(bundle) = 2
    /\ bundle[2].kind = "structure"

\* C17: once a section has been left out of the bundle because it would
\* exceed the budget, the bundle receives no further section.
C17_NothingAfterSkip ==
    [][skipped => bundle' = bundle]_vars

----------------------------------------------------------------------------
(* Working copies of concurrent webhook events (src/index.js)              *)
(*                                                                         *)
(* Each labelled-issue event runs the handler body as its own async        *)
(* continuation; Date.now() is the millisecond clock the path is stamped   *)
(* with.                                                                   *)

MaxClock == 2

Instances == {1, 2}

\* `${repo.owner.login}-${repoName}` of the two events
RepoKeys == {"acme-api", "acme-ui"}

NoPath == [key |-> "", stamp |-> 0]

IdleWorkdir ==
    /\ clock = 0
    /\ instanceRepo = [i \in Instances |-> "acme-api"]
    /\ repoPath = [i \in Instances |-> NoPath]
    /\ instancePc = [i \in Instances |-> "Idle"]
    /\ tmpDirs = {}

InitWorkdir ==
    /\ clock = 1
    /\ instanceRepo \in [Instances -> RepoKeys]
    /\ repoPath = [i \in Instances |-> NoPath]
    /\ instancePc = [i \in Instances |-> "Received"]
    /\ tmpDirs = {}

\* a millisecond passes
Tick ==
    /\ clock < MaxClock
    /\ clock' = clock + 1
    /\ UNCHANGED <<instanceRepo, repoPath, instancePc, tmpDirs>>
    /\ UNCHANGED notWorkdir

\* path.join(__dirname, 'tmp', `${repo.owner.login}-${repoName}-${Date.now()}`)
ChoosePath(i) ==
    /\ instancePc[i] = "Received"
    /\ repoPath' = [repoPath EXCEPT ![i] = [key |-> instanceRepo[i], stamp |-> clock]]
    /\ instancePc' = [instancePc EXCEPT ![i] = "Cloning"]
    /\ UNCHANGED <<clock, instanceRepo, tmpDirs>>
    /\ UNCHANGED notWorkdir

\* git.clone(url, repoPath): every method fails on a directory that is
\* already populated, and the handler's catch block then ends the run
CloneInto(i) ==
    /\ instancePc[i] = "Cloning"
    /\ IF repoPath[i] \in tmpDirs
       THEN /\ instancePc' = [instancePc EXCEPT ![i] = "Failed"]
            /\ UNCHANGED tmpDirs
       ELSE /\ instancePc' = [instancePc EXCEPT ![i] = "Working"]
            /\ tmpDirs' = tmpDirs \cup {repoPath[i]}
    /\ UNCHANGED <<clock, instanceRepo, repoPath>>
    /\ UNCHANGED notWorkdir

\* how the work in the copy ends: "Finishing" falls through to the clean-up
\* (pull request created, or the no-fixes comment posted), "Returned" is a
\* return statement (fix could not be applied, GitHub client missing),
\* "Threw" is an exception on its way to the handler's catch block
WorkOutcomes == {"Finishing", "Returned", "Threw"}

\* analysis, fix, commit and push in the working copy
WorkInCopy(i) ==
    /\ instancePc[i] = "Working"
    /\ \E outcome \in WorkOutcomes :
          instancePc' = [instancePc EXCEPT ![i] =
                            IF repoPath[i] \in tmpDirs THEN outcome ELSE "Threw"]
    /\ UNCHANGED <<clock, instanceRepo, repoPath, tmpDirs>>
    /\ UNCHANGED notWorkdir

\* the catch block: repoPath is a const of the try block and not in scope,
\* so typeof repoPath is 'undefined' and the removal is skipped
CatchError(i) ==
    /\ instancePc[i] = "Threw"
    /\ instancePc' = [instancePc EXCEPT ![i] = "Errored"]
    /\ UNCHANGED <<clock, instanceRepo, repoPath, tmpDirs>>
    /\ UNCHANGED notWorkdir

\* fs.rmSync(repoPath, { recursive: true, force: true })
Cleanup(i) ==
    /\ instancePc[i] = "Finishing"
    /\ tmpDirs' = tmpDirs \ {repoPath[i]}
    /\ instancePc' = [instancePc EXCEPT ![i] = "Done"]
    /\ UNCHANGED <<clock, instanceRepo, repoPath>>
    /\ UNCHANGED notWorkdir

NextWorkdir ==
    \/ Tick
    \/ \E i \in Instances : ChoosePath(i)
    \/ \E i \in Instances : CloneInto(i)
    \/ \E i \in Instances : WorkInCopy(i)
    \/ \E i \in Instances : Cleanup(i)
    \/ \E i \in Instances : CatchError(i)

\* an instance that holds a working-copy path and has not ended
Running(i) == instancePc[i] \in {"Cloning", "Working", "Finishing", "Threw"}

\* C13: two pipeline instances that run at the same time hold different
\* working-copy directories.
C13_DistinctWorkingCopies ==
    \A i, j \in Instances :
        (i # j /\ Running(i) /\ Running(j)) => repoPath[i] # repoPath[j]

\* C29: an instance that has cloned a working copy has removed it when it
\* terminates, on every terminal path.
C29_WorkingCopyRemoved ==
    [][\A i \in Instances :
          (instancePc[i] \in {"Working", "Finishing", "Threw"}
           /\ instancePc'[i] \in {"Done", "Returned", "Errored", "Failed"})
          => repoPath[i] \notin tmpDirs']_vars

----------------------------------------------------------------------------
(* validateFix, tier by tier (src/src/services/errorAnalysisService.js)    *)

MaxFragments == 2

\* an import statement without a semicolon or a line break
ImportFrom ==
    <<"i", "m", "p", "o", "r", "t", SP, "a", SP, "f", "r", "o", "m", SP, "b">>

\* pieces of a proposed file content: markup tags, brackets, a type
\* annotation, a statement end, a corruption literal, an import, crossing
\* brackets, a comparison and a string that ends with an escaped backslash
Fragments ==
    { <<"<", "a", ">">>, <<"<", "/", "a", ">">>, <<")">>, <<"(", "(", "(">>,
      <<"x">>, <<":", "y">>, <<";">>, <<NULLNULL>>, ImportFrom,
      <<"(", "[">>, <<")", "]">>, <<"(", "x", "<", "y", ")">>,
      <<"(", SQ, BSL, BSL, SQ, ")">> }

RECURSIVE ConcatAll(_, _)
ConcatAll(parts, i) ==
    IF i > Len(parts) THEN <<>> ELSE parts[i] \o ConcatAll(parts, i + 1)

ProposedContents == {ConcatAll(parts, 1) : parts \in SeqsUpTo(Fragments, MaxFragments)}

ValidatedPaths ==
    {[ext |-> e, base |-> "src/a"] : e \in {".js", ".jsx", ".ts", ".tsx", ".java"}}
    \cup {NonStringPath}

IdleValidate ==
    /\ validateContent = <<>>
    /\ validatePath = JsPath
    /\ attempted = {}
    /\ validatePc = "Idle"

\* validateFix(newContent, filePath) is entered
InitValidate ==
    /\ validateContent \in ProposedContents \cup {NullContent}
    /\ validatePath \in ValidatedPaths
    /\ attempted = {}
    /\ validatePc = "Strict"

\* an exception of the try block propagates to the caller
validateFixRethrows(verdict, threw) == IF threw THEN "Thrown" ELSE verdict

\* catch (error) { ... return true }
validateFixCatches(verdict, threw) == IF threw THEN "Passed" ELSE verdict

\* newContent.length, then checkForCommonIssues(newContent)
StrictTier ==
    /\ validatePc = "Strict"
    /\ attempted' = IF validateContent = NullContent THEN attempted
                    ELSE attempted \cup {"strict"}
    /\ validatePc' = validateFixCatches(
                         IF checkForCommonIssues(Expand(validateContent)) > 0
                         THEN "Lenient" ELSE "TypeScript",
                         validateContent = NullContent)
    /\ UNCHANGED <<validateContent, validatePath>>
    /\ UNCHANGED notValidate

\* checkForCommonIssuesLenient(newContent)
LenientTier ==
    /\ validatePc = "Lenient"
    /\ attempted' = attempted \cup {"lenient"}
    /\ validatePc' = IF checkForCommonIssuesLenient(Expand(validateContent)) = 0
                     THEN "Passed" ELSE "Fallback"
    /\ UNCHANGED <<validateContent, validatePath>>
    /\ UNCHANGED notValidate

\* checkForCommonIssuesFallback(newContent)
FallbackTier ==
    /\ validatePc = "Fallback"
    /\ attempted' = attempted \cup {"fallback"}
    /\ validatePc' = IF checkForCommonIssuesFallback(Expand(validateContent)) = 0
                     THEN "Passed" ELSE "Failed"
    /\ UNCHANGED <<validateContent, validatePath>>
    /\ UNCHANGED notValidate

\* checkTypeScriptIssues(newContent, filePath) on a script path
TypeScriptTier ==
    /\ validatePc = "TypeScript"
    /\ validatePc' = validateFixCatches(
                         IF /\ validatePath.ext \in {".js", ".jsx", ".ts", ".tsx"}
                            /\ checkTypeScriptIssues(Expand(validateContent),
                                                     validatePath) > 0
                         THEN "Failed" ELSE "Passed",
                         validatePath = NonStringPath)
    /\ UNCHANGED <<validateContent, validatePath, attempted>>
    /\ UNCHANGED notValidate

NextValidate ==
    \/ StrictTier
    \/ LenientTier
    \/ FallbackTier
    \/ TypeScriptTier

\* C19: validateFix fails a content only after the strict, the lenient and
\* the fallback tier have each been run on it and rejected it.
C19_FailureAfterEveryTier ==
    validatePc = "Failed" => attempted = {"strict", "lenient", "fallback"}

\* C20: on a .jsx or .tsx path validateFix passes no content whose count of
\* opening tags differs from its count of closing tags.
C20_TagParityOnMarkup ==
    (validatePc = "Passed" /\ validatePath.ext \in {".jsx", ".tsx"}) =>
        CountMatches(OpenTagEnd, Expand(validateContent), 1)
            = CountMatches(CloseTagEnd, Expand(validateContent), 1)

\* C21: a content without corruption literal whose three bracket kinds are
\* each within 5 of balance passes checkForCommonIssuesFallback, and a
\* content the lenient tier accepts is accepted by the fallback tier.
C21_FallbackOnlyExtremes ==
    (validatePc # "Idle" /\ validateContent # NullContent) =>
        LET content == Expand(validateContent)
        IN  /\ (CorruptionIssues(content) = 0
                /\ ImbalanceIssues(content, FallbackThreshold) = 0)
               => checkForCommonIssuesFallback(content) = 0
            /\ checkForCommonIssuesLenient(content) = 0
               => checkForCommonIssuesFallback(content) = 0

\* what an exact bracket check finds in code whose only literals are
\* single-quoted strings with backslash escapes: "ok", "unexpected" (a
\* closing bracket with nothing open), "mismatch" (a closing bracket that
\* does not close the most recent open one), "unclosed" or "open string"
RECURSIVE NestingOf(_, _, _, _)
NestingOf(c, i, stack, inString) ==
    IF i > Len(c)
    THEN (IF inString THEN "open string"
          ELSE IF Len(stack) > 0 THEN "unclosed" ELSE "ok")
    ELSE IF inString
    THEN (IF c[i] = BSL THEN NestingOf(c, i + 2, stack, TRUE)
          ELSE NestingOf(c, i + 1, stack, c[i] # SQ))
    ELSE IF c[i] = SQ THEN NestingOf(c, i + 1, stack, TRUE)
    ELSE IF c[i] \in OpenBrackets THEN NestingOf(c, i + 1, Append(stack, c[i]), FALSE)
    ELSE IF c[i] \in CloseBrackets
    THEN (IF Len(stack) = 0 THEN "unexpected"
          ELSE IF CloserOf(stack[Len(stack)]) # c[i] THEN "mismatch"
          ELSE NestingOf(c, i + 1, SubSeq(stack, 1, Len(stack) - 1), FALSE))
    ELSE NestingOf(c, i + 1, stack, FALSE)

\* code without double-quoted strings, template literals and comments
PlainCode(c) ==
    /\ ~Includes(c, <<DQ>>)
    /\ ~Includes(c, <<BT>>)
    /\ ~Includes(c, <<"/", "/">>)
    /\ ~Includes(c, <<"/", "*">>)

\* C22: validateBracketsIntelligently reports nothing on content whose
\* brackets outside strings are balanced and properly nested, and reports
\* an issue when a closing bracket does not match the most recent open one.
C22_StrictBracketCheckExact ==
    (validatePc # "Idle" /\ validateContent # NullContent
     /\ PlainCode(Expand(validateContent))) =>
        LET content == Expand(validateContent)
            nesting == NestingOf(content, 1, <<>>, FALSE)
        IN  /\ nesting = "ok" => validateBracketsIntelligently(content) = 0
            /\ nesting = "mismatch" => validateBracketsIntelligently(content) > 0

\* a check inside the try block of validateFix throws on these inputs
ThrowsInside ==
    \/ validateContent = NullContent
    \/ /\ validatePath = NonStringPath
       /\ checkForCommonIssues(Expand(validateContent)) = 0

\* C23: an exception thrown by a check inside validateFix does not leave
\* validateFix; the call returns true.
C23_ValidatorErrorPasses ==
    /\ validatePc # "Thrown"
    /\ (validatePc \in {"Passed", "Failed"} /\ ThrowsInside) => validatePc = "Passed"

C23_Witness ==
    /\ validatePc = "Passed"
    /\ validatePath = NonStringPath
    /\ validateContent = <<"x">>

----------------------------------------------------------------------------------------------------------------------------------------
(* analyzeError of the two services: the confidence of the returned fixes  *)
(* and the history of stored fix patterns                                  *)
(* (src/src/services/errorAnalysisService.js 15-111,                       *)
(*  src/src/services/enhancedErrorAnalysisService.js 20-60, 179-276,       *)
(*  331-390).  Confidences are in hundredths.                              *)

MaxCalls == 2

HistoryLimit == 100

\* the markers the two parsers look for, each one element of a text
SUGGESTED_FIX == "Suggested Fix:"
CONFIDENCE_LEVEL == "Confidence Level:"
ROOT_CAUSE_ANALYSIS == "Root Cause Analysis"
SAFETY_CONSIDERATIONS == "Safety Considerations"
ERROR_HANDLING == "error handling"
TRY == "try"
CATCH == "catch"

\* the two template fixes of generatePatternBasedFix, each one element
DeclarationFix == "// Ensure variable is properly declared"
NullCheckFix == "// Add null/undefined check"

DigitValue(c) == CHOOSE n \in 0..9 : <<"0", "1", "2", "3", "4", "5", "6", "7", "8", "9">>[n + 1] = c

\* first position at or after q whose character is not a digit
RECURSIVE SkipDigits(_, _)
SkipDigits(t, q) ==
    IF q <= Len(t) /\ t[q] \in Digits THEN SkipDigits(t, q + 1) ELSE q

\* the decimal value of the digits t[a..b]
RECURSIVE DecimalValue(_, _, _)
DecimalValue(t, a, b) ==
    IF a > b THEN 0 ELSE DecimalValue(t, a, b - 1) * 10 + DigitValue(t[b])

\* parseFloat(section.match(/\d+\.?\d*/)?.[0] || '0.8'), in hundredths
\* (fraction digits after the second are dropped)
parseConfidence(section) ==
    IF ~\E i \in 1..Len(section) : section[i] \in Digits THEN 80
    ELSE LET a == CHOOSE i \in 1..Len(section) :
                    section[i] \in Digits /\ \A j \in 1..(i - 1) : section[j] \notin Digits
             b == SkipDigits(section, a)
             whole == DecimalValue(section, a, b - 1)
             e == IF b <= Len(section) /\ section[b] = "." THEN SkipDigits(section, b + 1) ELSE b
             tenths == IF e > b + 1 THEN DigitValue(section[b + 1]) ELSE 0
             hundredths == IF e > b + 2 THEN DigitValue(section[b + 2]) ELSE 0
         IN  whole * 100 + tenths * 10 + hundredths

\* sections.find(s => s.includes(marker)), <<>> standing for undefined
FindSection(sections, marker) ==
    IF \E i \in 1..Len(sections) : Includes(sections[i], <<marker>>)
    THEN sections[CHOOSE i \in 1..Len(sections) :
                    /\ Includes(sections[i], <<marker>>)
                    /\ \A j \in 1..(i - 1) : ~Includes(sections[j], <<marker>>)]
    ELSE <<>>

\* String.prototype.replace(marker, '')
RemoveFirst(t, marker) ==
    LET i == IndexOf(t, marker, 1)
    IN  IF i = 0 THEN t ELSE SubSeq(t, 1, i - 1) \o SubSeq(t, i + 1, Len(t))

\* parseAIResponse on response.split('\n\n')
parseAIResponse(sections) ==
    [suggestedFix |-> Trim(RemoveFirst(FindSection(sections, SUGGESTED_FIX), SUGGESTED_FIX)),
     confidence |-> IF FindSection(sections, CONFIDENCE_LEVEL) = <<>> THEN 80
                    ELSE parseConfidence(FindSection(sections, CONFIDENCE_LEVEL))]

\* combineFixes
combineFixes(analysis) ==
    IF Len(analysis.suggestedFix) > 0
    THEN <<[type |-> "ai", code |-> analysis.suggestedFix,
            confidence |-> analysis.confidence]>>
    ELSE <<>>

\* first position at or after q whose character is not in [\w]
RECURSIVE SkipWord(_, _)
SkipWord(t, q) ==
    IF q <= Len(t) /\ IsWord(t[q]) THEN SkipWord(t, q + 1) ELSE q

\* codeBlocks[0].replace(/FENCE[\w]*\n?/, '').replace(/FENCE$/, '') for the
\* first match of /FENCE[\s\S]*?FENCE/, '' without a match
enhancedFixCode(text) ==
    LET p == IndexOf(text, FENCE, 1)
        c == IF p = 0 THEN 0 ELSE IndexOf(text, FENCE, p + 1)
    IN  IF c = 0 THEN <<>>
        ELSE LET q == SkipWord(text, p + 1)
                 bodyStart == IF q < c /\ text[q] = NL THEN q + 1 ELSE Min(q, c)
             IN  SubSeq(text, bodyStart, c - 1)

\* calculateConfidence
calculateConfidence(text, fixCode) ==
    Min(50 + (IF Len(fixCode) > 10 THEN 20 ELSE 0)
           + (IF Includes(text, <<ROOT_CAUSE_ANALYSIS>>) THEN 10 ELSE 0)
           + (IF Includes(text, <<SAFETY_CONSIDERATIONS>>) THEN 10 ELSE 0)
           + (IF Includes(text, <<ERROR_HANDLING>>) THEN 10 ELSE 0)
           + (IF Includes(text, <<TRY>>) /\ Includes(text, <<CATCH>>) THEN 10 ELSE 0),
        95)

\* parseEnhancedAIResponse
parseEnhancedAIResponse(text) ==
    [suggestedFix |-> enhancedFixCode(text),
     confidence |-> calculateConfidence(text, enhancedFixCode(text))]

\* this.aiAnalysis of the enhanced service: analyzeError keeps the parsed
\* response in results.aiAnalysis, the property on the service is never set
thisAiAnalysis == [suggestedFix |-> <<>>, confidence |-> 0]

NoHistoricalFix == [code |-> <<>>, confidence |-> 0]

\* generatePatternBasedFix, by error type; <<>> standing for null
generatePatternBasedFix(errorType) ==
    IF errorType = "referenceerror" THEN <<DeclarationFix>>
    ELSE IF errorType = "typeerror" THEN <<NullCheckFix>>
    ELSE <<>>

\* fixes.sort((a, b) => b.confidence - a.confidence) on at most three fixes
RECURSIVE SortByConfidence(_)
SortByConfidence(fixes) ==
    IF Len(fixes) <= 1 THEN fixes
    ELSE LET best == CHOOSE i \in 1..Len(fixes) :
                        /\ \A j \in 1..Len(fixes) : fixes[j].confidence <= fixes[i].confidence
                        /\ \A j \in 1..(i - 1) : fixes[j].confidence < fixes[i].confidence
         IN  <<fixes[best]>> \o
             SortByConfidence(SubSeq(fixes, 1, best - 1) \o SubSeq(fixes, best + 1, Len(fixes)))

\* generateStructuredFixes
generateStructuredFixes(errorType, historicalFix) ==
    SortByConfidence(
        (IF Len(thisAiAnalysis.suggestedFix) > 0
         THEN <<[type |-> "ai_enhanced", code |-> thisAiAnalysis.suggestedFix,
                 confidence |-> thisAiAnalysis.confidence]>>
         ELSE <<>>)
        \o (IF historicalFix # NoHistoricalFix
            THEN <<[type |-> "historical", code |-> historicalFix.code,
                    confidence |-> Min(historicalFix.confidence + 10, 90)]>>
            ELSE <<>>)
        \o (IF generatePatternBasedFix(errorType) # <<>>
            THEN <<[type |-> "pattern", code |-> generatePatternBasedFix(errorType),
                    confidence |-> 70]>>
            ELSE <<>>))

MinCodeLength == 5

DangerousPatterns ==
    { <<"e", "v", "a", "l", "(">>,
      <<"F", "u", "n", "c", "t", "i", "o", "n", "(">>,
      <<"i", "n", "n", "e", "r", "H", "T", "M", "L", "=">>,
      <<"d", "o", "c", "u", "m", "e", "n", "t", ".", "w", "r", "i", "t", "e">>,
      <<"p", "r", "o", "c", "e", "s", "s", ".", "e", "x", "i", "t">> }

\* fix.code.length, a template fix counting as longer than any threshold
IsShortCode(code) ==
    /\ Len(code) < MinCodeLength
    /\ \A i \in 1..Len(code) : code[i] \notin {DeclarationFix, NullCheckFix}

\* validateFix(fix, errorDetails, repoPath) of the enhanced service
enhancedValidateFix(code) ==
    /\ ~IsShortCode(code)
    /\ \A pattern \in DangerousPatterns : ~Includes(code, pattern)

\* validateAndRankFixes
validateAndRankFixes(fixes) == SelectSeq(fixes, LAMBDA f : enhancedValidateFix(f.code))

\* position of a pattern key in the history, 0 if absent
HistoryIndex(history, key) ==
    IF \E i \in 1..Len(history) : history[i].key = key
    THEN CHOOSE i \in 1..Len(history) : history[i].key = key
    ELSE 0

\* findHistoricalFix
findHistoricalFix(history, key) ==
    IF HistoryIndex(history, key) = 0 THEN NoHistoricalFix
    ELSE [code |-> history[HistoryIndex(history, key)].code,
          confidence |-> history[HistoryIndex(history, key)].confidence]

\* Map.prototype.set: an existing key keeps its place, a new key goes last
MapSet(history, entry) ==
    IF HistoryIndex(history, entry.key) = 0 THEN Append(history, entry)
    ELSE [history EXCEPT ![HistoryIndex(history, entry.key)] = entry]

\* entries.sort((a, b) => b[1].timestamp - a[1].timestamp), a stable sort:
\* the entries of timestamp t in their Map order, then those of t - 1, down
\* to timestamp oldest
RECURSIVE SortByTimestamp(_, _, _)
SortByTimestamp(entries, t, oldest) ==
    IF t < oldest THEN <<>>
    ELSE SelectSeq(entries, LAMBDA e : e.timestamp = t)
         \o SortByTimestamp(entries, t - 1, oldest)

\* the eviction of storeFixPattern: the first HistoryLimit entries of the sort
KeepRecent(entries) ==
    IF Len(entries) <= HistoryLimit THEN entries
    ELSE LET stamps == {entries[i].timestamp : i \in 1..Len(entries)}
             newest == CHOOSE t \in stamps : \A u \in stamps : u <= t
             oldest == CHOOSE t \in stamps : \A u \in stamps : u >= t
         IN  SubSeq(SortByTimestamp(entries, newest, oldest), 1, HistoryLimit)

\* storeFixPattern; stored is the ordinal of the call, kept for the properties
storeFixPattern(history, key, successfulFix, timestamp, ordinal) ==
    KeepRecent(MapSet(history, [key |-> key, code |-> successfulFix.code,
                                confidence |-> successfulFix.confidence,
                                timestamp |-> timestamp, stored |-> ordinal]))

\* the error pattern keys: the error type and one more distinguishing part
PatternKey(errorType, n) == [errorType |-> errorType, n |-> n]

\* a history of HistoryLimit patterns stored one per millisecond, or with
\* the first two stored in the same millisecond
FullHistory(tied) ==
    [i \in 1..HistoryLimit |->
        [key |-> PatternKey("referenceerror", i), code |-> <<DeclarationFix>>,
         confidence |-> 70,
         timestamp |-> IF tied /\ i > 1 THEN i - 1 ELSE i,
         stored |-> i]]

SafeCode == <<"x", "=", "s", "a", "f", "e", "(", "y", ")", ";">>

\* responses of the enhanced analysis: a fenced fix with and without the
\* markers, no fence, a fenced fix that is too short, a dangerous one
EnhancedResponses ==
    { <<FENCE, "j", "s", NL>> \o SafeCode \o <<NL, FENCE>>,
      <<ROOT_CAUSE_ANALYSIS, NL, FENCE, NL>> \o SafeCode \o <<";", NL, FENCE, NL,
        SAFETY_CONSIDERATIONS, SP, ERROR_HANDLING, SP, TRY, SP, CATCH>>,
      <<ROOT_CAUSE_ANALYSIS, SP, "x">>,
      <<FENCE, NL, "x", NL, FENCE>>,
      <<FENCE, NL, "e", "v", "a", "l", "(", "x", ")", NL, FENCE>> }

\* responses of the standard analysis, split on blank lines
StandardResponses ==
    { << <<SUGGESTED_FIX, SP, "y">>, <<CONFIDENCE_LEVEL, SP, "0", ".", "9">> >>,
      << <<"2", ".", SP, SUGGESTED_FIX, SP, "y">>,
         <<"4", ".", SP, CONFIDENCE_LEVEL, SP, "0", ".", "9">> >>,
      << <<SUGGESTED_FIX, SP, "y">>, <<CONFIDENCE_LEVEL, SP, "8", "5", "%">> >>,
      << <<SUGGESTED_FIX, SP, "y">>, <<CONFIDENCE_LEVEL, SP, "h", "i", "g", "h">> >>,
      << <<SUGGESTED_FIX, SP, "y">> >>,
      << <<CONFIDENCE_LEVEL, SP, "0", ".", "9">> >> }

ErrorTypes == {"referenceerror", "typeerror", "other"}

\* the distinguishing parts of the patterns the calls present: the oldest
\* stored one, the newest stored one, and new ones
PatternNumbers == {1, HistoryLimit, HistoryLimit + 1, HistoryLimit + 2}

NoAnalysis == [suggestedFix |-> <<>>, confidence |-> 0]

IdleAnalyze ==
    /\ analysisHistory = <<>>
    /\ now = 0
    /\ calls = 0
    /\ service = "standard"
    /\ aiResponse = <<>>
    /\ aiAnalysis = NoAnalysis
    /\ suggestedFixes = <<>>
    /\ analyzePc = "Idle"

InitAnalyze ==
    /\ analysisHistory \in {<<>>, FullHistory(FALSE), FullHistory(TRUE)}
    /\ now = HistoryLimit
    /\ calls = 0
    /\ service \in {"standard", "enhanced"}
    /\ aiResponse = <<>>
    /\ aiAnalysis = NoAnalysis
    /\ suggestedFixes = <<>>
    /\ analyzePc = "Ready"

\* analyzeError of errorAnalysisService.js
AnalyzeStandard ==
    /\ analyzePc \in {"Ready", "Returned"}
    /\ service = "standard"
    /\ calls < MaxCalls
    /\ \E sections \in StandardResponses :
          /\ aiResponse' = sections
          /\ aiAnalysis' = parseAIResponse(sections)
          /\ suggestedFixes' = combineFixes(parseAIResponse(sections))
    /\ calls' = calls + 1
    /\ analyzePc' = "Returned"
    /\ UNCHANGED <<analysisHistory, now, service>>
    /\ UNCHANGED notAnalyze

\* analyzeError of enhancedErrorAnalysisService.js; Date.now() has or has
\* not moved on since the previous call
AnalyzeEnhanced ==
    /\ analyzePc \in {"Ready", "Returned"}
    /\ service = "enhanced"
    /\ calls < MaxCalls
    /\ \E errorType \in ErrorTypes, n \in PatternNumbers, text \in EnhancedResponses,
          elapsed \in {0, 1} :
          LET errorPattern == PatternKey(errorType, n)
              ranked == validateAndRankFixes(
                            generateStructuredFixes(
                                errorType, findHistoricalFix(analysisHistory, errorPattern)))
          IN  /\ aiResponse' = text
              /\ aiAnalysis' = parseEnhancedAIResponse(text)
              /\ suggestedFixes' = ranked
              /\ now' = now + elapsed
              /\ analysisHistory' =
                    IF Len(ranked) > 0
                    THEN storeFixPattern(analysisHistory, errorPattern, ranked[1],
                                         now + elapsed, HistoryLimit + calls + 1)
                    ELSE analysisHistory
    /\ calls' = calls + 1
    /\ analyzePc' = "Returned"
    /\ UNCHANGED service
    /\ UNCHANGED notAnalyze

NextAnalyze ==
    \/ AnalyzeStandard
    \/ AnalyzeEnhanced

\* C25: every fix analyzeError returns has a confidence in [0, 1].
C25_ConfidenceInUnitInterval ==
    analyzePc = "Returned" =>
        \A k \in 1..Len(suggestedFixes) :
            suggestedFixes[k].confidence >= 0 /\ suggestedFixes[k].confidence <= 100

\* C26: after storeFixPattern the history holds at most 100 entries, and an
\* evicted entry was stored before every entry that is kept, so that the
\* entry just stored is never the one evicted.
C26_RecencyOrderedEviction ==
    [][/\ Len(analysisHistory') <= HistoryLimit
       /\ \A i \in 1..Len(analysisHistory) :
             HistoryIndex(analysisHistory', analysisHistory[i].key) = 0 =>
                 \A j \in 1..Len(analysisHistory') :
                     analysisHistory[i].stored < analysisHistory'[j].stored]_vars

\* C30: when the model response holds a fenced block of at least
\* MinCodeLength characters without a dangerous pattern, the fixes the
\* enhanced analyzeError returns include one whose code is that block.
C30_ModelFixReturned ==
    (/\ analyzePc = "Returned"
     /\ service = "enhanced"
     /\ enhancedValidateFix(enhancedFixCode(aiResponse))) =>
        \E k \in 1..Len(suggestedFixes) :
            suggestedFixes[k].code = enhancedFixCode(aiResponse)

----------------
(* Specifications *)

IdleApply ==
    /\ gen = "standard"
    /\ filePath = JsPath
    /\ disk = [exists |-> FALSE, content |-> <<>>]
    /\ diskBefore = disk
    /\ fix = [code |-> <<>>, confidence |-> 0, errorLine |-> 0]
    /\ pc = "Idle"
    /\ lines = <<>>
    /\ startLine = 0
    /\ endLine = 0
    /\ newLines = <<>>
    /\ hasMeaningfulChange = FALSE
    /\ result = NoResult
    /\ writes = 0

InitApplyOnly ==
    /\ InitApply
    /\ IdleExtract
    /\ IdleParse
    /\ IdlePipeline
    /\ IdleContext
    /\ IdleWorkdir
    /\ IdleValidate
    /\ IdleAnalyze

InitExtractOnly ==
    /\ IdleApply
    /\ InitExtract
    /\ IdleParse
    /\ IdlePipeline
    /\ IdleContext
    /\ IdleWorkdir
    /\ IdleValidate
    /\ IdleAnalyze

InitParseOnly ==
    /\ IdleApply
    /\ IdleExtract
    /\ InitParse
    /\ IdlePipeline
    /\ IdleContext
    /\ IdleWorkdir
    /\ IdleValidate
    /\ IdleAnalyze

InitPipelineOnly ==
    /\ IdleApply
    /\ IdleExtract
    /\ IdleParse
    /\ InitPipeline
    /\ IdleContext
    /\ IdleWorkdir
    /\ IdleValidate
    /\ IdleAnalyze

InitContextOnly ==
    /\ IdleApply
    /\ IdleExtract
    /\ IdleParse
    /\ IdlePipeline
    /\ InitContext
    /\ IdleWorkdir
    /\ IdleValidate
    /\ IdleAnalyze

InitWorkdirOnly ==
    /\ IdleApply
    /\ IdleExtract
    /\ IdleParse
    /\ IdlePipeline
    /\ IdleContext
    /\ InitWorkdir
    /\ IdleValidate
    /\ IdleAnalyze

InitValidateOnly ==
    /\ IdleApply
    /\ IdleExtract
    /\ IdleParse
    /\ IdlePipeline
    /\ IdleContext
    /\ IdleWorkdir
    /\ InitValidate
    /\ IdleAnalyze

InitAnalyzeOnly ==
    /\ IdleApply
    /\ IdleExtract
    /\ IdleParse
    /\ IdlePipeline
    /\ IdleContext
    /\ IdleWorkdir
    /\ IdleValidate
    /\ InitAnalyze

SpecApply == InitApplyOnly /\ [][NextApply]_vars

SpecExtract == InitExtractOnly /\ [][NextExtract]_vars

SpecParse == InitParseOnly /\ [][NextParse]_vars

SpecPipeline == InitPipelineOnly /\ [][NextPipeline]_vars

SpecContext == InitContextOnly /\ [][NextContext]_vars

SpecWorkdir == InitWorkdirOnly /\ [][NextWorkdir]_vars

SpecValidate == InitValidateOnly /\ [][NextValidate]_vars

SpecAnalyze == InitAnalyzeOnly /\ [][NextAnalyze]_vars

====
